---- MODULE Spec2Model ----
(***************************************************************************)
(* Template applicability matcher and child work-item synthesizer of the   *)
(* "Create Child Tasks" extension.  The repository carries two builds of   *)
(* the engine: the AMD module src/src/scripts/app.js and the TypeScript    *)
(* module src/src/scripts/app.ts.  Both are modelled; the variable impl    *)
(* says which build a behaviour runs.  Operators that differ between the   *)
(* builds carry the suffix _js or _ts.                                     *)
(*                                                                         *)
(* JavaScript strings are sequences of one-character strings, so that      *)
(* trimming, splitting, lower-casing, regular expressions and JSON.parse   *)
(* are computed character by character.                                    *)
(***************************************************************************)
EXTENDS Integers, Sequences, FiniteSets, TLC

VARIABLES
    impl,             \* "js" (app.js) or "ts" (app.ts)
    currentWorkItem,  \* the parent work item's fields (a JS object)
    norm,             \* app.js: the cache currentWorkItem.__norm (matchField)
    filterElement,    \* one applywhen rule handed to matchField
    taskTemplate,     \* the template: description, fields
    teamSettings,     \* team settings handed to the synthesizer
    currentUser,      \* the signed-in user the host reports (ctx.user, currentUser)
    call,             \* the operation last applied and its arguments
    ret,              \* what that operation returned (or that it threw)
    calls,            \* number of operations applied in this run
    surface,          \* "form" (a work item is open) or "grid"; "none" outside a command
    workItemIds,      \* the parent ids of the command: context.workItemIds or the open item
    bugsBehavior,     \* the team's bugsBehavior at the host: Off, AsTasks, AsRequirements
    invocation,       \* create(context): its position and, in app.ts, the index of its loop
    runs,             \* addTasks(workItemId, service) of each parent id: position and data
    inFlight          \* the requests sent to the host and not yet answered

vars == <<impl, currentWorkItem, norm, filterElement, taskTemplate,
          teamSettings, currentUser, call, ret, calls,
          surface, workItemIds, bugsBehavior, invocation, runs, inFlight>>

\* the state of the toolbar command
runVars == <<surface, workItemIds, bugsBehavior, invocation, runs, inFlight>>
\* the state of the operations applied one at a time
matchVars == <<currentWorkItem, norm, filterElement, taskTemplate,
               teamSettings, currentUser, call, ret, calls>>

\* no toolbar command has been invoked
NoCommand ==
    /\ surface = "none"
    /\ workItemIds = <<>>
    /\ bugsBehavior = "Off"
    /\ invocation = [pc |-> "idle", idx |-> 0]
    /\ runs = <<>>
    /\ inFlight = {}

(***************************************************************************)
(* Bounds of the model.                                                    *)
(***************************************************************************)
MaxCalls == 2      \* operations applied to one parent item in a behaviour
MaxTitleLen == 2   \* length of the enumerated titles and title patterns
MaxTags == 2       \* number of tags of an enumerated item or rule
MaxRules == 2      \* number of rules of an enumerated applywhen array
MaxDescLen == 3    \* tokens of an enumerated brace and bracket description

(***************************************************************************)
(* Characters and strings                                                  *)
(***************************************************************************)
LowerLetters ==
    <<"a", "b", "c", "d", "e", "f", "g", "h", "i", "j", "k", "l", "m",
      "n", "o", "p", "q", "r", "s", "t", "u", "v", "w", "x", "y", "z">>
UpperLetters ==
    <<"A", "B", "C", "D", "E", "F", "G", "H", "I", "J", "K", "L", "M",
      "N", "O", "P", "Q", "R", "S", "T", "U", "V", "W", "X", "Y", "Z">>
LowerSet == {LowerLetters[i] : i \in 1..26}
UpperSet == {UpperLetters[i] : i \in 1..26}
ToLowerMap == [c \in UpperSet |-> LowerLetters[CHOOSE i \in 1..26 : UpperLetters[i] = c]]
ToUpperMap == [c \in LowerSet |-> UpperLetters[CHOOSE i \in 1..26 : LowerLetters[i] = c]]
Digits == {"0", "1", "2", "3", "4", "5", "6", "7", "8", "9"}
HexDigits == Digits \cup {"a", "b", "c", "d", "e", "f", "A", "B", "C", "D", "E", "F"}

\* String.prototype.toLowerCase / toUpperCase, one character
toLowerCaseChar(c) == IF c \in UpperSet THEN ToLowerMap[c] ELSE c
toUpperCaseChar(c) == IF c \in LowerSet THEN ToUpperMap[c] ELSE c
toLowerCase(s) == [i \in 1..Len(s) |-> toLowerCaseChar(s[i])]
toUpperCase(s) == [i \in 1..Len(s) |-> toUpperCaseChar(s[i])]

\* The characters \s of a regular expression and String.prototype.trim remove
\* ("nbsp" stands for U+00A0)
WhiteSpace == {" ", "\t", "\n", "\r", "\f", "nbsp"}
\* The line terminators the regular expression atom . does not match
LineTerminators == {"\n", "\r"}

RECURSIVE TrimStart(_)
TrimStart(s) ==
    IF Len(s) > 0 /\ s[1] \in WhiteSpace THEN TrimStart(Tail(s)) ELSE s
RECURSIVE TrimEnd(_)
TrimEnd(s) ==
    IF Len(s) > 0 /\ s[Len(s)] \in WhiteSpace
    THEN TrimEnd(SubSeq(s, 1, Len(s) - 1)) ELSE s
trim(s) == TrimEnd(TrimStart(s))

\* the positions 1..Len(s) in order
Indices(s) == [k \in 1..Len(s) |-> k]
Max(S) == CHOOSE x \in S : \A y \in S : y <= x
Min(S) == CHOOSE x \in S : \A y \in S : x <= y

\* String.prototype.split(/[seps]/): a cut at every separator character
split(s, seps) ==
    LET cuts == SelectSeq(Indices(s), LAMBDA k : s[k] \in seps)
        From(p) == IF p = 1 THEN 1 ELSE cuts[p - 1] + 1
        To(p) == IF p = Len(cuts) + 1 THEN Len(s) ELSE cuts[p] - 1
    IN [p \in 1..(Len(cuts) + 1) |-> SubSeq(s, From(p), To(p))]

\* String.prototype.split(/[seps]+/): a cut at every run of separator
\* characters, so no empty part between two separators
splitRuns(s, seps) ==
    LET parts == split(s, seps)
        kept == SelectSeq(Indices(parts),
                          LAMBDA p : p = 1 \/ p = Len(parts) \/ Len(parts[p]) > 0)
    IN [p \in 1..Len(kept) |-> parts[kept[p]]]

\* replace(/\u00a0|\s+/g, ' '): a nbsp that starts a match becomes one blank;
\* any other run of white space (a nbsp inside it included) becomes one blank
RECURSIVE NormalizeSpacesAt(_, _, _)
NormalizeSpacesAt(s, i, inRun) ==
    IF i > Len(s) THEN <<>>
    ELSE IF s[i] \notin WhiteSpace
         THEN <<s[i]>> \o NormalizeSpacesAt(s, i + 1, FALSE)
    ELSE IF inRun THEN NormalizeSpacesAt(s, i + 1, TRUE)
    ELSE <<" ">> \o NormalizeSpacesAt(s, i + 1, s[i] # "nbsp")
normalizeSpaces(s) == NormalizeSpacesAt(s, 1, FALSE)

\* Array.prototype.join
RECURSIVE join(_, _)
join(parts, sep) ==
    IF Len(parts) = 0 THEN <<>>
    ELSE IF Len(parts) = 1 THEN parts[1]
    ELSE parts[1] \o sep \o join(Tail(parts), sep)

\* String.prototype.indexOf(t, from): first position >= from (1-based) where t
\* occurs in s, 0 when there is none
indexOf(s, t, from) ==
    LET found == {k \in from..(Len(s) - Len(t) + 1) : SubSeq(s, k, k + Len(t) - 1) = t}
    IN IF found = {} THEN 0 ELSE Min(found)

\* the elements of a sequence that satisfy "non-empty" (filter(function (s) { return s; }))
RECURSIVE filterNonEmpty(_)
filterNonEmpty(parts) ==
    IF Len(parts) = 0 THEN <<>>
    ELSE IF Len(parts[1]) = 0 THEN filterNonEmpty(Tail(parts))
    ELSE <<parts[1]>> \o filterNonEmpty(Tail(parts))

Range(f) == {f[i] : i \in DOMAIN f}

(***************************************************************************)
(* JavaScript values: undefined, null, booleans, numbers, strings, arrays, *)
(* objects.  An object keeps its keys in insertion order.                  *)
(***************************************************************************)
Undefined == [t |-> "undefined", s |-> <<>>, a |-> <<>>, k |-> <<>>]
JNull == [t |-> "null", s |-> <<>>, a |-> <<>>, k |-> <<>>]
JBool(b) == [t |-> IF b THEN "true" ELSE "false", s |-> <<>>, a |-> <<>>, k |-> <<>>]
JNum(text) == [t |-> "number", s |-> text, a |-> <<>>, k |-> <<>>]
JStr(text) == [t |-> "string", s |-> text, a |-> <<>>, k |-> <<>>]
JArr(elems) == [t |-> "array", s |-> <<>>, a |-> elems, k |-> <<>>]
JObj(keys, values) == [t |-> "object", s |-> <<>>, a |-> values, k |-> keys]

\* v == null in JavaScript: null or undefined
IsNullish(v) == v.t \in {"undefined", "null"}

\* the keys every plain object inherits from Object.prototype: a lookup
\* obj[key] on an object literal {} finds them although the object does not
\* own them
ObjectPrototypeKeys ==
    { <<"c", "o", "n", "s", "t", "r", "u", "c", "t", "o", "r">>,
      <<"t", "o", "S", "t", "r", "i", "n", "g">>,
      <<"v", "a", "l", "u", "e", "O", "f">>,
      <<"_", "_", "p", "r", "o", "t", "o", "_", "_">> }

\* own property lookup obj[key] of a value parsed from JSON or fetched from the
\* host: the last entry of that key, undefined when there is none
RECURSIVE LastIndex(_, _, _)
LastIndex(keys, key, i) ==
    IF i = 0 THEN 0
    ELSE IF keys[i] = key THEN i
    ELSE LastIndex(keys, key, i - 1)
Get(obj, key) ==
    IF obj.t # "object" THEN Undefined
    ELSE LET i == LastIndex(obj.k, key, Len(obj.k))
         IN IF i = 0 THEN Undefined ELSE obj.a[i]
HasOwn(obj, key) == obj.t = "object" /\ LastIndex(obj.k, key, Len(obj.k)) # 0

ObjectObject ==
    <<"[", "o", "b", "j", "e", "c", "t", " ", "O", "b", "j", "e", "c", "t", "]">>
UndefinedText ==
    <<"u", "n", "d", "e", "f", "i", "n", "e", "d">>
NullText ==
    <<"n", "u", "l", "l">>
TrueText ==
    <<"t", "r", "u", "e">>
FalseText ==
    <<"f", "a", "l", "s", "e">>

\* String(v): what a string concatenation or String.prototype.replace makes of v
RECURSIVE ToStr(_)
ToStr(v) ==
    CASE v.t = "string" -> v.s
      [] v.t = "number" -> v.s
      [] v.t = "true" -> TrueText
      [] v.t = "false" -> FalseText
      [] v.t = "null" -> NullText
      [] v.t = "undefined" -> UndefinedText
      [] v.t = "object" -> ObjectObject
      [] v.t = "array" ->
            join([i \in 1..Len(v.a) |->
                    IF IsNullish(v.a[i]) THEN <<>> ELSE ToStr(v.a[i])], <<",">>)

(***************************************************************************)
(* JSON.parse                                                              *)
(***************************************************************************)
JSONWhiteSpace == {" ", "\t", "\n", "\r"}
\* characters below U+0020, which a JSON string may not hold unescaped
ControlChars == {"\t", "\n", "\r", "\f"}
EscapeMap ==
    [c \in {"\"", "\\", "/", "n", "t", "r", "f", "b"} |->
        CASE c = "n" -> "\n" [] c = "t" -> "\t" [] c = "r" -> "\r"
          [] c = "f" -> "\f" [] c = "b" -> "bs" [] OTHER -> c]

ParseFail == [ok |-> FALSE, v |-> Undefined, nx |-> 0]
ParseOk(v, nx) == [ok |-> TRUE, v |-> v, nx |-> nx]

RECURSIVE SkipWs(_, _)
SkipWs(s, i) ==
    IF i <= Len(s) /\ s[i] \in JSONWhiteSpace THEN SkipWs(s, i + 1) ELSE i

RECURSIVE ScanDigits(_, _)
ScanDigits(s, i) ==
    IF i <= Len(s) /\ s[i] \in Digits THEN ScanDigits(s, i + 1) ELSE i

\* a JSON string whose opening quote precedes position i
RECURSIVE ParseStringChars(_, _, _)
ParseStringChars(s, i, acc) ==
    IF i > Len(s) THEN ParseFail
    ELSE IF s[i] = "\"" THEN ParseOk(JStr(acc), i + 1)
    ELSE IF s[i] \in ControlChars THEN ParseFail
    ELSE IF s[i] = "\\"
         THEN IF i + 1 > Len(s) THEN ParseFail
              ELSE IF s[i + 1] \in DOMAIN EscapeMap
                   THEN ParseStringChars(s, i + 2, Append(acc, EscapeMap[s[i + 1]]))
              ELSE IF s[i + 1] = "u" /\ i + 5 <= Len(s)
                      /\ \A j \in (i + 2)..(i + 5) : s[j] \in HexDigits
                   THEN ParseStringChars(s, i + 6,
                            Append(acc, "U+" \o s[i + 2] \o s[i + 3] \o s[i + 4] \o s[i + 5]))
              ELSE ParseFail
    ELSE ParseStringChars(s, i + 1, Append(acc, s[i]))

\* -?(0|[1-9][0-9]*)(\.[0-9]+)?([eE][+-]?[0-9]+)?
\* the exponent, after integer part s[j0..j1-1] and fraction s[j1..j2-1]
NumberExponent(s, i, j0, j1, j2) ==
    LET hasFrac == j1 <= Len(s) /\ s[j1] = "."
        hasExp == j2 <= Len(s) /\ s[j2] \in {"e", "E"}
        j3 == IF j2 + 1 <= Len(s) /\ s[j2 + 1] \in {"+", "-"} THEN j2 + 2 ELSE j2 + 1
        j4 == IF hasExp THEN ScanDigits(s, j3) ELSE j2
    IN IF j1 = j0 \/ (hasFrac /\ j2 = j1 + 1) \/ (hasExp /\ j4 = j3)
       THEN ParseFail
       ELSE ParseOk(JNum(SubSeq(s, i, j4 - 1)), j4)
\* the fraction, after the integer part s[j0..j1-1]
NumberFraction(s, i, j0, j1) ==
    NumberExponent(s, i, j0, j1,
        IF j1 <= Len(s) /\ s[j1] = "." THEN ScanDigits(s, j1 + 1) ELSE j1)
\* the integer part, starting at j0 after the sign
NumberInteger(s, i, j0) ==
    NumberFraction(s, i, j0,
        IF j0 <= Len(s) /\ s[j0] = "0" THEN j0 + 1 ELSE ScanDigits(s, j0))
ParseNumber(s, i) == NumberInteger(s, i, IF s[i] = "-" THEN i + 1 ELSE i)

ParseLiteral(s, i, text, v) ==
    IF i + Len(text) - 1 <= Len(s) /\ SubSeq(s, i, i + Len(text) - 1) = text
    THEN ParseOk(v, i + Len(text)) ELSE ParseFail

RECURSIVE ParseValue(_, _), ParseElements(_, _, _), ParseMembers(_, _, _, _)

\* a JSON value starting at or after position i (white space skipped)
ParseValue(s, i0) ==
    LET i == SkipWs(s, i0)
    IN IF i > Len(s) THEN ParseFail
       ELSE CASE s[i] = "\"" -> ParseStringChars(s, i + 1, <<>>)
              [] s[i] = "{" ->
                    LET j == SkipWs(s, i + 1)
                    IN IF j <= Len(s) /\ s[j] = "}"
                       THEN ParseOk(JObj(<<>>, <<>>), j + 1)
                       ELSE ParseMembers(s, j, <<>>, <<>>)
              [] s[i] = "[" ->
                    LET j == SkipWs(s, i + 1)
                    IN IF j <= Len(s) /\ s[j] = "]"
                       THEN ParseOk(JArr(<<>>), j + 1)
                       ELSE ParseElements(s, j, <<>>)
              [] s[i] = "t" -> ParseLiteral(s, i, TrueText, JBool(TRUE))
              [] s[i] = "f" -> ParseLiteral(s, i, FalseText, JBool(FALSE))
              [] s[i] = "n" -> ParseLiteral(s, i, NullText, JNull)
              [] s[i] \in Digits \cup {"-"} -> ParseNumber(s, i)
              [] OTHER -> ParseFail

\* the elements of an array after "[", up to and including "]"
ElementsAfter(s, acc, r) ==
    LET j == SkipWs(s, r.nx)
    IN IF ~r.ok \/ j > Len(s) THEN ParseFail
       ELSE IF s[j] = "," THEN ParseElements(s, j + 1, Append(acc, r.v))
       ELSE IF s[j] = "]" THEN ParseOk(JArr(Append(acc, r.v)), j + 1)
       ELSE ParseFail
ParseElements(s, i, acc) == ElementsAfter(s, acc, ParseValue(s, i))

\* the members of an object after "{", up to and including "}": what follows
\* the member's value r
MembersAfterValue(s, keys, values, key, r) ==
    LET j == SkipWs(s, r.nx)
    IN IF ~r.ok \/ j > Len(s) THEN ParseFail
       ELSE IF s[j] = ","
            THEN ParseMembers(s, j + 1, Append(keys, key.v.s), Append(values, r.v))
       ELSE IF s[j] = "}"
            THEN ParseOk(JObj(Append(keys, key.v.s), Append(values, r.v)), j + 1)
       ELSE ParseFail
\* what follows the member's key
MembersAfterKey(s, keys, values, key) ==
    LET c == SkipWs(s, key.nx)
    IN MembersAfterValue(s, keys, values, key,
           IF key.ok /\ c <= Len(s) /\ s[c] = ":" THEN ParseValue(s, c + 1) ELSE ParseFail)
ParseMembers(s, i0, keys, values) ==
    LET i == SkipWs(s, i0)
    IN MembersAfterKey(s, keys, values,
           IF i <= Len(s) /\ s[i] = "\"" THEN ParseStringChars(s, i + 1, <<>>) ELSE ParseFail)

\* JSON.parse(text): [ok, v]; ok is FALSE where JSON.parse throws a SyntaxError
JSONparse(text) ==
    LET r == ParseValue(text, 1)
    IN IF r.ok /\ SkipWs(text, r.nx) = Len(text) + 1
       THEN [ok |-> TRUE, v |-> r.v]
       ELSE [ok |-> FALSE, v |-> Undefined]

(***************************************************************************)
(* Regular expressions of the program                                      *)
(***************************************************************************)
\* the characters escapeRegex puts a backslash before
RegexSpecials ==
    {".", "*", "+", "?", "^", "=", "!", ":", "$", "{", "}", "(", ")", "|",
     "[", "]", "/", "\\"}

\* escapeRegex: x.replace(/([.*+?^=!:${}()|\[\]\/\\])/g, "\\$1")
RECURSIVE escapeRegex(_)
escapeRegex(x) ==
    IF Len(x) = 0 THEN <<>>
    ELSE (IF x[1] \in RegexSpecials THEN <<"\\", x[1]>> ELSE <<x[1]>>)
         \o escapeRegex(Tail(x))

\* the source text of the regular expression of a title rule:
\* "^" + rule.split("*").map(escapeRegex).join(".*") + "$"
WildcardSource(rule) ==
    LET segments == split(rule, {"*"})
    IN <<"^">> \o join([i \in 1..Len(segments) |-> escapeRegex(segments[i])],
                       <<".", "*">>) \o <<"$">>

\* new RegExp(source): the atoms of a pattern made of ^, $, ., \c, c and the
\* quantifier *
RECURSIVE RegexAtoms(_, _)
RegexAtoms(src, i) ==
    IF i > Len(src) THEN <<>>
    ELSE LET esc == src[i] = "\\" /\ i + 1 <= Len(src)
             n == IF esc THEN i + 2 ELSE i + 1
             kind == CASE esc -> "char"
                       [] src[i] = "." -> "any"
                       [] src[i] = "^" -> "bol"
                       [] src[i] = "$" -> "eol"
                       [] OTHER -> "char"
             star == n <= Len(src) /\ src[n] = "*"
         IN <<[kind |-> kind, c |-> IF esc THEN src[i + 1] ELSE src[i], star |-> star]>>
            \o RegexAtoms(src, IF star THEN n + 1 ELSE n)

\* one atom against one character, flag i (Canonicalize: upper case)
AtomMatches(atom, c) ==
    CASE atom.kind = "any" -> c \notin LineTerminators
      [] atom.kind = "char" -> toUpperCaseChar(atom.c) = toUpperCaseChar(c)
      [] OTHER -> FALSE

\* the atoms from ai on match str from position si on
RECURSIVE RegexMatchAt(_, _, _, _)
RegexMatchAt(atoms, ai, str, si) ==
    IF ai > Len(atoms) THEN TRUE
    ELSE LET atom == atoms[ai]
         IN CASE atom.kind = "bol" -> si = 1 /\ RegexMatchAt(atoms, ai + 1, str, si)
              [] atom.kind = "eol" ->
                    si = Len(str) + 1 /\ RegexMatchAt(atoms, ai + 1, str, si)
              [] atom.star ->
                    \/ RegexMatchAt(atoms, ai + 1, str, si)
                    \/ /\ si <= Len(str)
                       /\ AtomMatches(atom, str[si])
                       /\ RegexMatchAt(atoms, ai, str, si + 1)
              [] OTHER ->
                    /\ si <= Len(str)
                    /\ AtomMatches(atom, str[si])
                    /\ RegexMatchAt(atoms, ai + 1, str, si + 1)

\* new RegExp(source, "i").test(str)
RegexTest(source, str) ==
    LET atoms == RegexAtoms(source, 1)
    IN \E si \in 1..(Len(str) + 1) : RegexMatchAt(atoms, 1, str, si)

\* str.match(/[^ab]+(?=b)/g) for the two regular expressions /[^{\}]+(?=})/g
\* and /[^[\]]+(?=])/g: the maximal runs of characters outside excluded that
\* the character closer follows; <<>> where match returns null
matchRuns(s, excluded, closer) ==
    LET ends == SelectSeq(Indices(s),
                          LAMBDA j : j > 1 /\ s[j] = closer /\ s[j - 1] \notin excluded)
        Start(j) == 1 + Max({0} \cup {k \in 1..(j - 1) : s[k] \in excluded})
    IN [p \in 1..Len(ends) |-> SubSeq(s, Start(ends[p]), ends[p] - 1)]

\* matchWildcardString (app.ts), and the title branch of matchField (app.js)
matchWildcardString(str, rule) == RegexTest(WildcardSource(rule), str)

(***************************************************************************)
(* extractJSON                                                             *)
(***************************************************************************)
MAX_ATTEMPTS == 100

\* what extractJSON returns: found = FALSE stands for null; attempts counts the
\* failed parses of the search, parses every call of JSON.parse
NoJSON(attempts, parses) ==
    [found |-> FALSE, res |-> JNull, start |-> 0, end |-> 0,
     attempts |-> attempts, parses |-> parses]
FoundJSON(res, start, end, attempts, parses) ==
    [found |-> TRUE, res |-> res, start |-> start, end |-> end,
     attempts |-> attempts, parses |-> parses]

\* the positions of the character c in str, ascending
PositionsOf(str, c, i) == SelectSeq(Indices(str), LAMBDA k : k >= i /\ str[k] = c)

\* app.js: the brace balance of str[j..end] starting from bal never goes
\* negative
isPossiblyBalanced(str, j, end, bal) ==
    \A k \in j..end :
        bal + Cardinality({m \in j..k : str[m] = "{"})
            - Cardinality({m \in j..k : str[m] = "}"}) >= 0

\* the closes tried for the open at start, in the order of the inner loop:
\* from the right, down to the break at end <= start
ClosesFrom(closes, start) ==
    [k \in 1..Len(SelectSeq(closes, LAMBDA e : e > start)) |->
        SelectSeq(closes, LAMBDA e : e > start)
            [Len(SelectSeq(closes, LAMBDA e : e > start)) + 1 - k]]
\* the index of the first candidate close whose span parses, Len(cands) + 1
\* when none does
FirstParsed(str, start, cands) ==
    Min({k \in 1..Len(cands) : JSONparse(SubSeq(str, start, cands[k])).ok}
        \cup {Len(cands) + 1})

\* app.js: for each open from the left, each close from the right
RECURSIVE ExtractPairs_js(_, _, _, _, _, _)
\* the inner loop of the open oi over its candidates cands, of which the
\* first ok - 1 fail to parse; the cap ends the search on the failure that
\* brings attempts to MAX_ATTEMPTS
PairsAfterOpen_js(str, opens, closes, oi, attempts, parses, cands, ok) ==
    IF attempts + (ok - 1) >= MAX_ATTEMPTS
    THEN NoJSON(MAX_ATTEMPTS, parses + (MAX_ATTEMPTS - attempts))
    ELSE IF ok <= Len(cands)
         THEN FoundJSON(JSONparse(SubSeq(str, opens[oi], cands[ok])).v,
                        opens[oi], cands[ok] + 1, attempts + ok - 1, parses + ok)
         ELSE ExtractPairs_js(str, opens, closes, oi + 1,
                              attempts + ok - 1, parses + ok - 1)
PairsOfOpen_js(str, opens, closes, oi, attempts, parses, cands) ==
    PairsAfterOpen_js(str, opens, closes, oi, attempts, parses, cands,
                      FirstParsed(str, opens[oi], cands))
ExtractPairs_js(str, opens, closes, oi, attempts, parses) ==
    IF oi > Len(opens) THEN NoJSON(attempts, parses)
    ELSE PairsOfOpen_js(str, opens, closes, oi, attempts, parses,
             SelectSeq(ClosesFrom(closes, opens[oi]),
                       LAMBDA e : isPossiblyBalanced(str, opens[oi], e, 0)))

\* app.js extractJSON(str, contextLabel); strv is the JS value handed in
extractJSON_js(strv) ==
    LET str == IF strv.t = "string" THEN strv.s ELSE <<>>
        trimmed == trim(str)
        fast == Len(trimmed) > 1 /\ trimmed[1] = "{" /\ trimmed[Len(trimmed)] = "}"
        fastRes == IF fast THEN JSONparse(trimmed) ELSE [ok |-> FALSE, v |-> Undefined]
        opens == PositionsOf(str, "{", 1)
        closes == PositionsOf(str, "}", 1)
        parses == IF fast THEN 1 ELSE 0
    IN IF fast /\ fastRes.ok
       THEN LET startIdx == indexOf(str, trimmed, 1)
            IN FoundJSON(fastRes.v, startIdx, startIdx + Len(trimmed), 0, 1)
       ELSE IF Len(opens) = 0 \/ Len(closes) = 0 THEN NoJSON(0, parses)
       ELSE ExtractPairs_js(str, opens, closes, 1, 0, parses)

\* str.substring(0, before).lastIndexOf(c): 0 when there is none
lastIndexOfChar(str, c, before) ==
    Max({0} \cup {k \in 1..(before - 1) : k <= Len(str) /\ str[k] = c})

\* app.ts: the two nested do-while loops
\* the inner loop over the closes cands right of firstOpen, from the right;
\* the first ok - 1 of them fail to parse
ExtractInner_ts(str, firstOpen, attempts, cands, ok) ==
    IF ok <= Len(cands)
    THEN FoundJSON(JSONparse(SubSeq(str, firstOpen, cands[ok])).v,
                   firstOpen, cands[ok] + 1, attempts + ok - 1, attempts + ok)
    ELSE NoJSON(attempts + Len(cands), attempts + Len(cands))
InnerOfOpen_ts(str, firstOpen, attempts, cands) ==
    ExtractInner_ts(str, firstOpen, attempts, cands, FirstParsed(str, firstOpen, cands))
RECURSIVE ExtractOuter_ts(_, _, _)
\* after the inner loop has ended with the outcome inner
ExtractNextOpen_ts(str, firstOpen, inner) ==
    LET nextOpen == indexOf(str, <<"{">>, firstOpen + 1)
    IN IF inner.found THEN inner
       ELSE IF nextOpen # 0 THEN ExtractOuter_ts(str, nextOpen, inner.attempts)
       ELSE inner
ExtractOuter_ts(str, firstOpen, attempts) ==
    LET firstClose == lastIndexOfChar(str, "}", Len(str) + 1)
    IN IF firstClose <= firstOpen THEN NoJSON(attempts, attempts)
       ELSE ExtractNextOpen_ts(str, firstOpen,
                InnerOfOpen_ts(str, firstOpen, attempts,
                               ClosesFrom(PositionsOf(str, "}", 1), firstOpen)))

\* app.ts extractJSON(str, label)
extractJSON_ts(strv) ==
    IF strv.t # "string" \/ Len(strv.s) = 0 THEN NoJSON(0, 0)
    ELSE LET firstOpen == indexOf(strv.s, <<"{">>, 1)
         IN IF firstOpen = 0 THEN NoJSON(0, 0)
            ELSE ExtractOuter_ts(strv.s, firstOpen, 0)

(***************************************************************************)
(* Field names and reserved tokens                                         *)
(***************************************************************************)
SystemWorkItemType ==
    <<"S", "y", "s", "t", "e", "m", ".", "W", "o", "r", "k", "I", "t", "e", "m", "T", "y", "p", "e">>
SystemState ==
    <<"S", "y", "s", "t", "e", "m", ".", "S", "t", "a", "t", "e">>
SystemAreaPath ==
    <<"S", "y", "s", "t", "e", "m", ".", "A", "r", "e", "a", "P", "a", "t", "h">>
SystemIterationPath ==
    <<"S", "y", "s", "t", "e", "m", ".", "I", "t", "e", "r", "a", "t", "i", "o", "n", "P", "a", "t", "h">>
SystemBoardColumn ==
    <<"S", "y", "s", "t", "e", "m", ".", "B", "o", "a", "r", "d", "C", "o", "l", "u", "m", "n">>
SystemBoardLane ==
    <<"S", "y", "s", "t", "e", "m", ".", "B", "o", "a", "r", "d", "L", "a", "n", "e">>
SystemTitle ==
    <<"S", "y", "s", "t", "e", "m", ".", "T", "i", "t", "l", "e">>
SystemTags ==
    <<"S", "y", "s", "t", "e", "m", ".", "T", "a", "g", "s">>
SystemTagsAdd ==
    <<"S", "y", "s", "t", "e", "m", ".", "T", "a", "g", "s", "-", "A", "d", "d">>
SystemAssignedTo ==
    <<"S", "y", "s", "t", "e", "m", ".", "A", "s", "s", "i", "g", "n", "e", "d", "T", "o">>
ApplyWhenKey ==
    <<"a", "p", "p", "l", "y", "w", "h", "e", "n">>
AtMe ==
    <<"@", "m", "e">>
AtCurrentIteration ==
    <<"@", "c", "u", "r", "r", "e", "n", "t", "i", "t", "e", "r", "a", "t", "i", "o", "n">>
FieldsPrefix ==
    <<"/", "f", "i", "e", "l", "d", "s", "/">>

\* app.js isValidTemplateWIT: the order in which a rule's fields are checked
orderedFields ==
    <<SystemWorkItemType, SystemState, SystemAreaPath, SystemIterationPath,
      SystemBoardColumn, SystemBoardLane, SystemTitle, SystemTags>>
\* app.ts isValidTemplateWIT: the order of its conjunction
orderedFields_ts ==
    <<SystemBoardColumn, SystemBoardLane, SystemState, SystemTags, SystemTitle,
      SystemAreaPath, SystemIterationPath, SystemWorkItemType>>
\* app.js matchField: the fields whose lower-cased value the cache keeps
scalarFields ==
    <<SystemWorkItemType, SystemState, SystemAreaPath, SystemIterationPath,
      SystemBoardColumn, SystemBoardLane, SystemTitle>>

(***************************************************************************)
(* matchField                                                              *)
(***************************************************************************)
\* the result of a predicate of the program: a boolean, or an exception
Returned(b) == [thrown |-> FALSE, val |-> b]
Thrown == [thrown |-> TRUE, val |-> FALSE]

\* app.js: currentWorkItem.__norm before the first matchField call on the item
NoNorm ==
    [set |-> FALSE, lower |-> [f \in Range(scalarFields) |-> <<>>],
     tagsLowerSet |-> {}, titleRegexCache |-> {}]

\* v == null ? '' : v.toString().toLowerCase()
LowerOrEmpty(v) == IF IsNullish(v) THEN <<>> ELSE toLowerCase(ToStr(v))

\* .map(function (s) { return s.trim().toLowerCase(); }).filter(function (s) { return s; })
TrimLowerNonEmpty(parts) ==
    filterNonEmpty([i \in 1..Len(parts) |-> toLowerCase(trim(parts[i]))])

\* app.js matchField: the normalization it stores as currentWorkItem.__norm
BuildNorm(item) ==
    LET tagsRaw == Get(item, SystemTags)
        rawStr == trim(normalizeSpaces(ToStr(tagsRaw)))
        arr == TrimLowerNonEmpty(splitRuns(rawStr, {";"}))
    IN [set |-> TRUE,
        lower |-> [f \in Range(scalarFields) |-> LowerOrEmpty(Get(item, f))],
        tagsLowerSet |->
            IF IsNullish(tagsRaw) THEN {}
            ELSE Range(arr) \ {<<"_", "_", "p", "r", "o", "t", "o", "_", "_">>},
        titleRegexCache |-> {}]

\* app.js: norm.tagsLowerSet[tag], a lookup in an object literal
TagLookup(n, tag) == tag \in n.tagsLowerSet \/ tag \in ObjectPrototypeKeys

\* app.js matchField: toTagArray
toTagArray_js(val) ==
    IF val.t = "array"
    THEN filterNonEmpty([i \in 1..Len(val.a) |->
             toLowerCase(trim(IF IsNullish(val.a[i]) THEN <<>> ELSE ToStr(val.a[i])))])
    ELSE IF IsNullish(val) THEN <<>>
    ELSE TrimLowerNonEmpty(splitRuns(trim(normalizeSpaces(ToStr(val))), {";", ","}))

\* a comparison that keeps the letter case of the rule value
compareAsWritten(filterVal, curLower) == ToStr(filterVal) = curLower

\* filterVal.toString().toLowerCase() === curLower
scalarCompare(filterVal, curLower) == toLowerCase(ToStr(filterVal)) = curLower

MatchResult_js(r, n) == [thrown |-> r.thrown, val |-> r.val, norm |-> n]

\* app.js matchField(fieldName, currentWorkItem, filterElement); n0 is
\* currentWorkItem.__norm at the call, the norm field of the result is
\* currentWorkItem.__norm after it
matchFieldWithNorm_js(fieldName, item, n, filterElem) ==
    LET filterVal == Get(filterElem, fieldName)
        curValRaw == Get(item, fieldName)
    IN IF IsNullish(filterElem) THEN MatchResult_js(Thrown, n)
       ELSE IF IsNullish(filterVal) THEN MatchResult_js(Returned(TRUE), n)
       ELSE IF fieldName = SystemTitle
            THEN LET rule == ToStr(filterVal)
                 IN IF rule \in ObjectPrototypeKeys
                    THEN MatchResult_js(Thrown, n)
                    ELSE MatchResult_js(
                             Returned(RegexTest(WildcardSource(rule), n.lower[SystemTitle])),
                             [n EXCEPT !.titleRegexCache = @ \cup {rule}])
       ELSE IF fieldName = SystemTags
            THEN LET filterTags == toTagArray_js(filterVal)
                 IN MatchResult_js(
                        Returned(\A i \in 1..Len(filterTags) : TagLookup(n, filterTags[i])), n)
       ELSE IF filterVal.t = "array"
            THEN LET curStr == IF Len(n.lower[fieldName]) > 0 THEN n.lower[fieldName]
                               ELSE LowerOrEmpty(curValRaw)
                 IN MatchResult_js(
                        Returned(\E i \in 1..Len(filterVal.a) :
                                     LowerOrEmpty(filterVal.a[i]) = curStr), n)
       ELSE IF IsNullish(curValRaw) THEN MatchResult_js(Returned(FALSE), n)
       ELSE LET curLower == IF Len(n.lower[fieldName]) > 0 THEN n.lower[fieldName]
                            ELSE toLowerCase(ToStr(curValRaw))
            IN MatchResult_js(Returned(scalarCompare(filterVal, curLower)), n)
matchField_js(fieldName, item, n0, filterElem) ==
    matchFieldWithNorm_js(fieldName, item, IF n0.set THEN n0 ELSE BuildNorm(item), filterElem)

\* app.ts matchField: toTagArray; an array is returned as it is
toTagArray_ts(val) ==
    IF val.t = "array" THEN val.a
    ELSE IF IsNullish(val) THEN <<>>
    ELSE LET parts == split(ToStr(val), {";", ",", "\n"})
             kept == filterNonEmpty([i \in 1..Len(parts) |-> trim(parts[i])])
         IN [i \in 1..Len(kept) |-> JStr(toLowerCase(kept[i]))]

\* currentTags.indexOf(tag) !== -1: strict equality, so only a string equals
\* a string
IndexOfTag(currentTags, tag) ==
    \E i \in 1..Len(currentTags) :
        currentTags[i].t = tag.t /\ tag.t \in {"string", "number"}
        /\ currentTags[i].s = tag.s

\* app.ts matchField(fieldName, currentWorkItem, filterElement)
matchField_ts(fieldName, item, filterElem) ==
    LET filterVal == Get(filterElem, fieldName)
        curValRaw == Get(item, fieldName)
    IN IF IsNullish(filterElem) THEN Thrown
       ELSE IF IsNullish(filterVal) THEN Returned(TRUE)
       ELSE IF fieldName = SystemTitle
            THEN Returned(matchWildcardString(
                     IF IsNullish(curValRaw) THEN <<>> ELSE ToStr(curValRaw),
                     ToStr(filterVal)))
       ELSE IF fieldName = SystemTags
            THEN LET currentTags == toTagArray_ts(curValRaw)
                     filterTags == toTagArray_ts(filterVal)
                 IN Returned(\A i \in 1..Len(filterTags) :
                                 IndexOfTag(currentTags, filterTags[i]))
       ELSE IF filterVal.t = "array"
            THEN LET curStr == LowerOrEmpty(curValRaw)
                 IN Returned(\E i \in 1..Len(filterVal.a) :
                                 LowerOrEmpty(filterVal.a[i]) = curStr)
       ELSE IF IsNullish(curValRaw) THEN Returned(FALSE)
       ELSE Returned(scalarCompare(filterVal, toLowerCase(ToStr(curValRaw))))

(***************************************************************************)
(* isValidTemplateWIT                                                      *)
(***************************************************************************)
\* the bracket branch finding no list
NoBracketFilters(desc, item) == [thrown |-> FALSE, val |-> FALSE]

\* the bracket branch of both builds: description.match(/[^[\]]+(?=])/g) and
\* the search of the parent's type among the comma-separated tokens
bracketFilters(desc, item) ==
    LET filters == matchRuns(desc, {"[", "]"}, "]")
        type == Get(item, SystemWorkItemType)
        Found(filter) ==
            LET tokens == split(filter, {","})
            IN \E i \in 1..Len(tokens) :
                   /\ toLowerCase(trim(tokens[i])) = toLowerCase(ToStr(type))
                   /\ \A j \in 1..(i - 1) :
                          toLowerCase(trim(tokens[j])) # toLowerCase(ToStr(type))
                   /\ Len(tokens[i]) > 0
    IN IF Len(filters) = 0 THEN Returned(FALSE)
       ELSE IF IsNullish(type) THEN Thrown
       ELSE Returned(\E i \in 1..Len(filters) : Found(filters[i]))

\* app.js: one rule against the ordered fields, inside try/catch; m is the
\* outcome of matchField on the field at i
RECURSIVE RuleMatches_js(_, _, _, _)
RuleAfterField_js(item, el, i, m) ==
    IF m.thrown \/ ~m.val THEN [val |-> FALSE, norm |-> m.norm]
    ELSE RuleMatches_js(item, m.norm, el, i + 1)
RuleMatches_js(item, n, el, i) ==
    IF i > Len(orderedFields) THEN [val |-> TRUE, norm |-> n]
    ELSE IF IsNullish(el) THEN [val |-> FALSE, norm |-> n]
    ELSE IF Get(el, orderedFields[i]).t = "undefined"
         THEN RuleMatches_js(item, n, el, i + 1)
    ELSE RuleAfterField_js(item, el, i, matchField_js(orderedFields[i], item, n, el))

\* app.js: jsonFilters.applywhen.some(...); r is the outcome of the rule at ri
RECURSIVE SomeRule_js(_, _, _, _)
SomeRuleAfter_js(item, rules, ri, r) ==
    IF r.val THEN r ELSE SomeRule_js(item, r.norm, rules, ri + 1)
SomeRule_js(item, n, rules, ri) ==
    IF ri > Len(rules) THEN [val |-> FALSE, norm |-> n]
    ELSE SomeRuleAfter_js(item, rules, ri, RuleMatches_js(item, n, rules[ri], 1))

\* app.js isValidTemplateWIT(currentWorkItem, taskTemplate), after the call
\* of extractJSON
applyFilters_js(item, n0, template, extracted) ==
    LET jsonFilters == extracted.res
    IN IF extracted.found /\ jsonFilters.t = "object"
          /\ Get(jsonFilters, ApplyWhenKey).t = "array"
       THEN LET r == SomeRule_js(item, n0, Get(jsonFilters, ApplyWhenKey).a, 1)
            IN [thrown |-> FALSE, val |-> r.val, norm |-> r.norm]
       ELSE IF IsNullish(template.description)
            THEN MatchResult_js(Thrown, n0)
       ELSE MatchResult_js(bracketFilters(ToStr(template.description), item), n0)
isValidTemplateWIT_js(item, n0, template) ==
    applyFilters_js(item, n0, template, extractJSON_js(template.description))

\* a rule whose evaluation throws taken as a matching rule
ThrowingRuleMatches_ts(item, el) ==
    \A i \in 1..Len(orderedFields_ts) :
        LET m == matchField_ts(orderedFields_ts[i], item, el)
        IN m.thrown \/ m.val

\* app.ts: one rule, the conjunction of the eight matchField calls in try/catch
RuleMatches_ts(item, el) ==
    \A i \in 1..Len(orderedFields_ts) :
        LET m == matchField_ts(orderedFields_ts[i], item, el)
        IN ~m.thrown /\ m.val

\* app.ts isValidTemplateWIT(currentWorkItem, taskTemplate), after the call
\* of extractJSON
applyFilters_ts(item, template, extracted) ==
    LET jsonFilters == extracted.res
    IN IF extracted.found /\ jsonFilters.t = "object"
          /\ Get(jsonFilters, ApplyWhenKey).t = "array"
       THEN Returned(\E ri \in 1..Len(Get(jsonFilters, ApplyWhenKey).a) :
                         RuleMatches_ts(item, Get(jsonFilters, ApplyWhenKey).a[ri]))
       ELSE IF template.description.t # "string" \/ Len(template.description.s) = 0
            THEN Returned(FALSE)
       ELSE bracketFilters(template.description.s, item)
isValidTemplateWIT_ts(item, template) ==
    applyFilters_ts(item, template, extractJSON_ts(template.description))

(***************************************************************************)
(* The inputs of the matcher: parent items, rules, template descriptions   *)
(***************************************************************************)
\* every string of at most n characters of the alphabet
StringsUpTo(alphabet, n) == UNION {[1..k -> alphabet] : k \in 0..n}

\* JSON text of a string: the author writes a quote, a backslash and a control
\* character as an escape
RECURSIVE EscapeJSON(_)
EscapeJSON(s) ==
    IF Len(s) = 0 THEN <<>>
    ELSE (CASE s[1] = "\"" -> <<"\\", "\"">>
            [] s[1] = "\\" -> <<"\\", "\\">>
            [] s[1] = "\n" -> <<"\\", "n">>
            [] s[1] = "\r" -> <<"\\", "r">>
            [] s[1] = "\t" -> <<"\\", "t">>
            [] s[1] = "\f" -> <<"\\", "f">>
            [] OTHER -> <<s[1]>>) \o EscapeJSON(Tail(s))
Quote(s) == <<"\"">> \o EscapeJSON(s) \o <<"\"">>

\* the JSON text a template author writes for a value
RECURSIVE Stringify(_)
Stringify(v) ==
    CASE v.t = "string" -> Quote(v.s)
      [] v.t = "number" -> v.s
      [] v.t = "true" -> TrueText
      [] v.t = "false" -> FalseText
      [] v.t = "array" ->
            <<"[">> \o join([i \in 1..Len(v.a) |-> Stringify(v.a[i])], <<",">>)
                    \o <<"]">>
      [] v.t = "object" ->
            <<"{">> \o join([i \in 1..Len(v.k) |->
                               Quote(v.k[i]) \o <<":">> \o Stringify(v.a[i])], <<",">>)
                    \o <<"}">>
      [] OTHER -> NullText

\* a template description that holds the filter { "applywhen": rules } after
\* some prose
FilterDescription(prose, rules) ==
    JStr(prose \o Stringify(JObj(<<ApplyWhenKey>>, <<JArr(rules)>>)))

\* a template as the matcher reads it
Template(description) == [description |-> description, fields |-> JObj(<<>>, <<>>)]

\* an object of the given optional properties: a property whose value is
\* undefined is left out
RECURSIVE Obj(_, _)
Obj(keys, values) ==
    IF Len(keys) = 0 THEN JObj(<<>>, <<>>)
    ELSE LET rest == Obj(Tail(keys), Tail(values))
         IN IF values[1].t = "undefined" THEN rest
            ELSE JObj(<<keys[1]>> \o rest.k, <<values[1]>> \o rest.a)

TypeBug == <<"B", "u", "g">>
TypeTask == <<"T", "a", "s", "k">>
TypePBI ==
    <<"P", "r", "o", "d", "u", "c", "t", " ", "B", "a", "c", "k", "l", "o", "g", " ", "I", "t", "e", "m">>
StateNew == <<"N", "e", "w">>
StateApproved == <<"A", "p", "p", "r", "o", "v", "e", "d">>
WordConstructor == <<"c", "o", "n", "s", "t", "r", "u", "c", "t", "o", "r">>

\* the properties of the team settings the synthesizer reads
BacklogIterationKey ==
    <<"b", "a", "c", "k", "l", "o", "g", "I", "t", "e", "r", "a", "t", "i", "o", "n">>
DefaultIterationKey ==
    <<"d", "e", "f", "a", "u", "l", "t", "I", "t", "e", "r", "a", "t", "i", "o", "n">>
PathKey == <<"p", "a", "t", "h">>
BugsBehaviorKey ==
    <<"b", "u", "g", "s", "B", "e", "h", "a", "v", "i", "o", "r">>

\* the user of the web context
UniqueNameKey == <<"u", "n", "i", "q", "u", "e", "N", "a", "m", "e">>
NameKey == <<"n", "a", "m", "e">>
DisplayNameKey == <<"d", "i", "s", "p", "l", "a", "y", "N", "a", "m", "e">>
UserMail ==
    <<"u", "s", "e", "r", "@", "e", "x", "a", "m", "p", "l", "e", ".", "c", "o", "m">>
HostUser ==
    JObj(<<UniqueNameKey, NameKey, DisplayNameKey>>,
         <<JStr(UserMail), JStr(UserMail), JStr(<<"U", "s", "e", "r">>)>>)

\* a scenario of the matcher: the build, the parent item, the rule handed to
\* matchField and the template handed to isValidTemplateWIT
Scenario(build, item, rule, template) ==
    [impl |-> build, currentWorkItem |-> item, filterElement |-> rule,
     taskTemplate |-> template, teamSettings |-> Undefined, currentUser |-> HostUser]
Builds == {"js", "ts"}

\* titles and title rules: the characters of the enumerated titles
TitleChars == {"a", "B", "*", "\n"}
Titles == StringsUpTo(TitleChars, MaxTitleLen) \cup {WordConstructor, <<"a", ".", "b">>}
TitleRules(t) ==
    {JStr(<<"*">>), JStr(t), JStr(toUpperCase(t)), JStr(<<"a", "*">>),
     JArr(<<JStr(t), JStr(<<"z">>)>>)}
TitleScenarios ==
    {Scenario(b, Obj(<<SystemWorkItemType, SystemTitle>>, <<JStr(TypeBug), JStr(t)>>),
              Obj(<<SystemTitle>>, <<r>>),
              Template(FilterDescription(<<>>, <<Obj(<<SystemTitle>>, <<r>>)>>))) :
        <<b, t, r>> \in {<<b, t, r>> \in Builds \X Titles \X UNION {TitleRules(t) : t \in Titles} :
                            r \in TitleRules(t)}}

\* scalar and array rules of a field other than title and tags
StateValues == {Undefined, JStr(<<>>), JStr(StateNew), JStr(StateApproved)}
StateRules ==
    {JNull, JStr(<<>>), JStr(<<"n", "e", "w">>), JStr(StateApproved), JArr(<<>>),
     JArr(<<JStr(<<"n", "e", "w">>), JStr(<<"D", "o", "n", "e">>)>>),
     JArr(<<JStr(StateApproved)>>)}
StateScenarios ==
    {Scenario(b, Obj(<<SystemWorkItemType, SystemState>>, <<JStr(TypeBug), v>>),
              Obj(<<SystemState>>, <<r>>),
              Template(FilterDescription(<<>>, <<Obj(<<SystemState>>, <<r>>)>>))) :
        <<b, v, r>> \in Builds \X StateValues \X StateRules}

(***************************************************************************)
(* The matcher as a state machine                                          *)
(***************************************************************************)
NoCall == [op |-> "none", field |-> <<>>]
NoResult == [thrown |-> FALSE, val |-> FALSE]

InitOf(scenarios) ==
    /\ \E s \in scenarios :
           /\ impl = s.impl
           /\ currentWorkItem = s.currentWorkItem
           /\ filterElement = s.filterElement
           /\ taskTemplate = s.taskTemplate
           /\ teamSettings = s.teamSettings
           /\ currentUser = s.currentUser
    /\ norm = NoNorm
    /\ call = NoCall
    /\ ret = NoResult
    /\ calls = 0
    /\ NoCommand

\* matchField(f, currentWorkItem, filterElement)
MatchField(f) ==
    /\ calls < MaxCalls
    /\ \E r \in {IF impl = "js"
                  THEN matchField_js(f, currentWorkItem, norm, filterElement)
                  ELSE MatchResult_js(matchField_ts(f, currentWorkItem, filterElement), norm)} :
           /\ ret' = [thrown |-> r.thrown, val |-> r.val]
           /\ norm' = r.norm
    /\ call' = [op |-> "matchField", field |-> f]
    /\ calls' = calls + 1
    /\ UNCHANGED runVars
    /\ UNCHANGED <<impl, currentWorkItem, filterElement, taskTemplate, teamSettings, currentUser>>

\* isValidTemplateWIT(currentWorkItem, taskTemplate)
IsValidTemplateWIT ==
    /\ calls < MaxCalls
    /\ \E r \in {IF impl = "js"
                  THEN isValidTemplateWIT_js(currentWorkItem, norm, taskTemplate)
                  ELSE MatchResult_js(isValidTemplateWIT_ts(currentWorkItem, taskTemplate),
                                      norm)} :
           /\ ret' = [thrown |-> r.thrown, val |-> r.val]
           /\ norm' = r.norm
    /\ call' = [op |-> "isValidTemplateWIT", field |-> <<>>]
    /\ calls' = calls + 1
    /\ UNCHANGED runVars
    /\ UNCHANGED <<impl, currentWorkItem, filterElement, taskTemplate, teamSettings, currentUser>>

\* extractJSON(taskTemplate.description, label)
ExtractJSON ==
    /\ calls < MaxCalls
    /\ ret' = IF impl = "js" THEN extractJSON_js(taskTemplate.description)
              ELSE extractJSON_ts(taskTemplate.description)
    /\ call' = [op |-> "extractJSON", field |-> <<>>]
    /\ calls' = calls + 1
    /\ UNCHANGED runVars
    /\ UNCHANGED <<impl, currentWorkItem, norm, filterElement, taskTemplate, teamSettings,
                   currentUser>>

NextMatch ==
    \/ \E f \in Range(orderedFields) : MatchField(f)
    \/ IsValidTemplateWIT
    \/ ExtractJSON

InitFields == InitOf(TitleScenarios \cup StateScenarios)
SpecFields == InitFields /\ [][NextMatch]_vars


(***************************************************************************)
(* Properties of matchField on titles and on array rules                   *)
(***************************************************************************)
\* the normalized value of a field of the parent: lower-cased, the empty
\* string when the parent has no value
NormalizedValue(item, f) ==
    IF IsNullish(Get(item, f)) THEN <<>> ELSE toLowerCase(ToStr(Get(item, f)))

\* some value of the array equals the normalized value, letter case ignored
AnyOf(values, normalized) ==
    \E i \in 1..Len(values) :
        ~IsNullish(values[i]) /\ toLowerCase(ToStr(values[i])) = normalized

\* C3: for every recognized field other than System.Tags (System.Title
\* included) and every array rule value, matchField returns true iff the
\* parent's normalized value of the field equals one of the array's values,
\* letter case ignored.
C3_ArrayOrLaw ==
    (/\ call.op = "matchField"
     /\ call.field # SystemTags
     /\ Get(filterElement, call.field).t = "array")
    => (/\ ~ret.thrown
        /\ ret.val = AnyOf(Get(filterElement, call.field).a,
                           NormalizedValue(currentWorkItem, call.field)))

\* C4: for every title s, matchField on System.Title returns true for the
\* pattern "*", for the pattern s itself and for s upper-cased.
C4_WildcardInvariant ==
    (/\ call.op = "matchField"
     /\ call.field = SystemTitle
     /\ Get(currentWorkItem, SystemTitle).t = "string"
     /\ Get(filterElement, SystemTitle) \in
            {JStr(<<"*">>), JStr(Get(currentWorkItem, SystemTitle).s),
             JStr(toUpperCase(Get(currentWorkItem, SystemTitle).s))})
    => (~ret.thrown /\ ret.val)


(***************************************************************************)
(* Tag rules                                                               *)
(***************************************************************************)
TagBlah == <<"B", "l", "a", "h">>
TagClickMe == <<"C", "l", "i", "c", "k", "M", "e">>
ItemTagPool == {TagBlah, TagClickMe}
RuleTagPool == {TagBlah, <<"b", "l", "a", "h">>, WordConstructor}

\* the tag lists of the enumerated parents and rules
ItemTagLists == StringsUpTo(ItemTagPool, MaxTags)
RuleTagLists == StringsUpTo(RuleTagPool, MaxTags) \cup {<<TagBlah, TagClickMe>>}

\* System.Tags of a parent: the host joins the tags with semicolons; a parent
\* without tags has no System.Tags
ItemTagValues == {Undefined} \cup {JStr(join(l, <<";">>)) : l \in ItemTagLists}
\* System.Tags of a rule: an array of strings or one delimiter-joined string
RuleTagValues ==
    {JArr([i \in 1..Len(l) |-> JStr(l[i])]) : l \in RuleTagLists}
    \cup {JStr(join(l, <<",">>)) : l \in RuleTagLists}

\* the parent and the rule of the documented example, with the tags varied
TagScenarios ==
    {Scenario(b,
              Obj(<<SystemWorkItemType, SystemState, SystemTags>>,
                  <<JStr(TypePBI), JStr(StateApproved), c>>),
              Obj(<<SystemState, SystemTags, SystemWorkItemType>>,
                  <<JStr(StateApproved), r, JStr(TypePBI)>>),
              Template(FilterDescription(<<>>,
                  <<Obj(<<SystemState, SystemTags, SystemWorkItemType>>,
                        <<JStr(StateApproved), r, JStr(TypePBI)>>)>>))) :
        <<b, c, r>> \in Builds \X ItemTagValues \X RuleTagValues}

InitTags == InitOf(TagScenarios)
SpecTags == InitTags /\ [][NextMatch]_vars

\* the set of tags of a rule value: the elements of an array, or the parts of a
\* string between semicolons and commas; trimmed, lower-cased, none empty
RuleTagSet(v) ==
    LET parts == IF v.t = "array" THEN [i \in 1..Len(v.a) |-> ToStr(v.a[i])]
                 ELSE split(ToStr(v), {";", ","})
    IN {toLowerCase(trim(parts[i])) : i \in 1..Len(parts)} \ {<<>>}
\* the set of tags of a parent: the parts of its semicolon-joined System.Tags
ItemTagSet(item) ==
    IF IsNullish(Get(item, SystemTags)) THEN {}
    ELSE LET parts == split(ToStr(Get(item, SystemTags)), {";"})
         IN {toLowerCase(trim(parts[i])) : i \in 1..Len(parts)} \ {<<>>}

\* C2: matchField on System.Tags returns true iff every tag of the rule
\* (trimmed, letter case ignored) is among the tags of the parent.
C2_TagSubsetLaw ==
    (/\ call.op = "matchField"
     /\ call.field = SystemTags
     /\ ~IsNullish(Get(filterElement, SystemTags)))
    => (/\ ~ret.thrown
        /\ ret.val = (RuleTagSet(Get(filterElement, SystemTags))
                          \subseteq ItemTagSet(currentWorkItem)))

\* the rule names the parent's state and type and gives an array of tags that
\* the parent carries, each written as the parent writes it
RuleOfParentTags ==
    /\ Get(filterElement, SystemState) = Get(currentWorkItem, SystemState)
    /\ Get(filterElement, SystemWorkItemType) = Get(currentWorkItem, SystemWorkItemType)
    /\ Get(filterElement, SystemTags).t = "array"
    /\ Get(currentWorkItem, SystemTags).t = "string"
    /\ \A i \in 1..Len(Get(filterElement, SystemTags).a) :
           /\ Get(filterElement, SystemTags).a[i].t = "string"
           /\ Get(filterElement, SystemTags).a[i].s
                  \in Range(split(Get(currentWorkItem, SystemTags).s, {";"}))
    /\ taskTemplate.description = FilterDescription(<<>>, <<filterElement>>)

\* C7: a template whose single rule names the parent's state and type and an
\* array of tags of the parent is applicable; so it is for the parent with tags
\* "Blah;ClickMe" and the rule tags ["Blah","ClickMe"].
C7_EndToEndScenario ==
    (call.op = "isValidTemplateWIT" /\ RuleOfParentTags) => (~ret.thrown /\ ret.val)


(***************************************************************************)
(* Rule arrays                                                             *)
(***************************************************************************)
\* a key that is none of the recognized field names
MisspelledStateKey == <<"S", "t", "a", "t", "e">>
\* the rules of the enumerated applywhen arrays
RulePool ==
    {JObj(<<>>, <<>>),
     Obj(<<SystemState>>, <<JStr(StateNew)>>),
     Obj(<<SystemWorkItemType, SystemState>>, <<JStr(TypeBug), JStr(StateApproved)>>),
     Obj(<<SystemTitle>>, <<JStr(<<"*", "}">>)>>),
     Obj(<<MisspelledStateKey>>, <<JStr(StateApproved)>>),
     JNull, JStr(TypeBug)}
RuleLists == StringsUpTo(RulePool, MaxRules)
\* what precedes the JSON object in the description
Proses == {<<>>, <<"N", "o", "t", "e", ":", " ">>}
RuleItems ==
    {Obj(<<SystemWorkItemType, SystemState, SystemTitle>>,
         <<JStr(TypeBug), JStr(StateNew), JStr(<<"a", "}">>)>>),
     Obj(<<SystemWorkItemType, SystemState>>, <<JStr(TypeBug), JStr(StateApproved)>>),
     Obj(<<SystemWorkItemType, SystemState, SystemTitle>>,
         <<JStr(TypeTask), JStr(StateApproved), JStr(<<"a">>)>>)}
\* what follows it
ProsesAfter == {<<>>, <<" ", "(", "s", "e", "e", " ", "w", "i", "k", "i", ")">>}
RuleScenarios ==
    {Scenario(b, item, IF Len(rules) = 0 THEN JObj(<<>>, <<>>) ELSE rules[1],
              Template(JStr(FilterDescription(prose, rules).s \o after))) :
        <<b, item, prose, rules, after>> \in
            Builds \X RuleItems \X Proses \X RuleLists \X ProsesAfter}

InitRules == InitOf(RuleScenarios)
SpecRules == InitRules /\ [][NextMatch]_vars

\* the positions of a character in a text
Positions(text, c) == {i \in 1..Len(text) : text[i] = c}
\* the JSON objects a text contains: every part of it that is the text of one
JSONObjectsIn(text) ==
    {JSONparse(SubSeq(text, i, j)).v :
        <<i, j>> \in {<<i, j>> \in Positions(text, "{") \X Positions(text, "}") :
                        i < j /\ JSONparse(SubSeq(text, i, j)).ok}}
\* those of them that have an array property applywhen
FiltersIn(description) ==
    IF description.t # "string" THEN {}
    ELSE {o \in JSONObjectsIn(description.s) : Get(o, ApplyWhenKey).t = "array"}

\* matchField of the build under check is true
MatchFieldTrue(f, item, rule) ==
    IF impl = "js"
    THEN LET r == matchField_js(f, item, NoNorm, rule) IN ~r.thrown /\ r.val
    ELSE LET r == matchField_ts(f, item, rule) IN ~r.thrown /\ r.val
\* a rule matches: matchField is true for every recognized field it specifies
RuleHolds(item, rule) ==
    \A f \in Range(orderedFields) : HasOwn(rule, f) => MatchFieldTrue(f, item, rule)

\* C1: when the description contains a JSON object with an applywhen array
\* (of rule objects), isValidTemplateWIT returns true iff some rule of the
\* array matches, a rule matching iff matchField is true for every one of the
\* 8 recognized fields the rule specifies.
C1_RuleOrFieldAnd ==
    call.op = "isValidTemplateWIT"
    => \A o \in FiltersIn(taskTemplate.description) :
           (\A i \in 1..Len(Get(o, ApplyWhenKey).a) :
                Get(o, ApplyWhenKey).a[i].t = "object")
           => (/\ ~ret.thrown
               /\ ret.val = (\E i \in 1..Len(Get(o, ApplyWhenKey).a) :
                                 RuleHolds(currentWorkItem, Get(o, ApplyWhenKey).a[i])))

(***************************************************************************)
(* Descriptions without a filter: brackets, stray braces                   *)
(***************************************************************************)
DescTokens == {<<"{">>, <<"}">>, <<"[">>, <<"]">>, TypeBug}
MalformedFilterNote ==
    <<"s", "o", "m", "e", " ", "n", "o", "t", "e", "s", " ", "{", "n", "o", "t", " ", "v", "a", "l", "i", "d", " ", "j", "s", "o", "n", "}", " ", "m", "o", "r", "e", " ", "t", "e", "x", "t", " ", "[", "B", "u", "g", "]">>
\* the enumerated descriptions: every text of at most MaxDescLen tokens, the
\* documented examples, and the description a template without one has
Descriptions ==
    {JStr(join(l, <<>>)) : l \in StringsUpTo(DescTokens, MaxDescLen)}
    \cup {JStr(MalformedFilterNote),
          JStr(<<"[", "B", "u", "g", ",", " ", "T", "a", "s", "k", "]">>),
          JStr(<<"[", " ", "b", "u", "g", " ", ",", "T", "a", "s", "k", "]">>),
          Undefined}
DescItems ==
    {Obj(<<SystemWorkItemType>>, <<JStr(TypeBug)>>),
     Obj(<<SystemWorkItemType, SystemTitle, SystemTags>>,
         <<JStr(TypeBug), JStr(<<"a">>), JStr(TagBlah)>>),
     Obj(<<SystemWorkItemType, SystemTitle>>, <<JStr(TypeTask), JStr(<<"a">>)>>)}
DescScenarios ==
    {Scenario(b, item, JObj(<<>>, <<>>), Template(d)) :
        <<b, item, d>> \in Builds \X DescItems \X Descriptions}

InitDesc == InitOf(DescScenarios)
SpecDesc == InitDesc /\ [][NextMatch]_vars

\* a token of a comma-separated list names the type, blanks and letter case
\* ignored
NamesType(list, type) ==
    \E t \in Range(split(list, {","})) : toLowerCase(trim(t)) = toLowerCase(type)
\* the description contains a bracket list [T1, T2, ...] that names the type
BracketListNames(text, type) ==
    \E i \in Positions(text, "["), j \in Positions(text, "]") :
        /\ i < j
        /\ \A k \in (i + 1)..(j - 1) : text[k] \notin {"[", "]"}
        /\ NamesType(SubSeq(text, i + 1, j - 1), type)

\* C5: when the description yields no JSON object with an applywhen array,
\* isValidTemplateWIT returns, without throwing, true iff the description
\* contains a bracket list one of whose trimmed tokens is the parent's type,
\* letter case ignored; false when the description is empty or missing.  The
\* parent's title and tags do not occur in the result.
C5_BracketFallback ==
    (/\ call.op = "isValidTemplateWIT"
     /\ FiltersIn(taskTemplate.description) = {})
    => (/\ ~ret.thrown
        /\ ret.val = (/\ taskTemplate.description.t = "string"
                      /\ BracketListNames(taskTemplate.description.s,
                                          Get(currentWorkItem, SystemWorkItemType).s)))

\* the text has a bracket-free list closed by "]" that names the type: what
\* the bracket branch looks for
ClosedListNames(text, type) ==
    \E j \in Positions(text, "]") :
        \E i \in 1..(j - 1) :
            /\ \A k \in i..(j - 1) : text[k] \notin {"[", "]"}
            /\ i > 1 => text[i - 1] \in {"[", "]"}
            /\ NamesType(SubSeq(text, i, j - 1), type)

\* C6: for a description text no part of which parses as a JSON object,
\* extractJSON returns null, isValidTemplateWIT decides as the bracket branch
\* does and does not throw, and the description
\* "some notes {not valid json} more text [Bug]" is applicable iff the
\* parent's type is Bug.
C6_MalformedJSONResilience ==
    (/\ taskTemplate.description.t = "string"
     /\ JSONObjectsIn(taskTemplate.description.s) = {})
    => (/\ call.op = "extractJSON" => ~ret.found
        /\ call.op = "isValidTemplateWIT"
           => (/\ ~ret.thrown
               /\ ret.val = ClosedListNames(taskTemplate.description.s,
                                            Get(currentWorkItem, SystemWorkItemType).s)
               /\ taskTemplate.description.s = MalformedFilterNote
                  => ret.val = (Get(currentWorkItem, SystemWorkItemType).s = TypeBug)))

\* C6 witness: the malformed description was evaluated for a Bug parent and
\* found applicable
C6_Witness ==
    /\ call.op = "isValidTemplateWIT"
    /\ taskTemplate.description = JStr(MalformedFilterNote)
    /\ Get(currentWorkItem, SystemWorkItemType) = JStr(TypeBug)
    /\ ret.val


(***************************************************************************)
(* The child-item synthesizer                                              *)
(***************************************************************************)
\* a condition that takes every value for true
AlwaysTruthy(v) == TRUE

\* a value in a condition: if (v)
Truthy(v) ==
    /\ v.t \notin {"undefined", "null", "false"}
    /\ v.t = "string" => Len(v.s) > 0
    /\ v.t = "number" => v.s # <<"0">>

\* the replacement text String.prototype.replace(string, text) inserts for the
\* match: $$ is a dollar sign, $& the matched text, $` the text before the
\* match, $' the text after it; every other character stands for itself
RECURSIVE ExpandReplacement(_, _, _, _)
ExpandReplacement(text, matched, before, after) ==
    IF Len(text) = 0 THEN <<>>
    ELSE IF Len(text) >= 2 /\ text[1] = "$" /\ text[2] \in {"$", "&", "`", "'"}
         THEN (CASE text[2] = "$" -> <<"$">>
                 [] text[2] = "&" -> matched
                 [] text[2] = "`" -> before
                 [] text[2] = "'" -> after)
              \o ExpandReplacement(SubSeq(text, 3, Len(text)), matched, before, after)
    ELSE <<text[1]>> \o ExpandReplacement(Tail(text), matched, before, after)

\* s.replace(pattern, value) with a string pattern: the first occurrence only,
\* the value turned into a string
replaceFirst(s, pattern, value) ==
    LET at == indexOf(s, pattern, 1)
        before == SubSeq(s, 1, at - 1)
        after == SubSeq(s, at + Len(pattern), Len(s))
    IN IF at = 0 THEN s
       ELSE before \o ExpandReplacement(ToStr(value), pattern, before, after) \o after

\* the loop of replaceReferenceToParentField over the matches
RECURSIVE ReplaceEach(_, _, _, _)
ReplaceEach(fieldValue, filters, i, item) ==
    IF i > Len(filters) THEN fieldValue
    ELSE ReplaceEach(replaceFirst(fieldValue, <<"{">> \o filters[i] \o <<"}">>,
                                  Get(item, filters[i])),
                     filters, i + 1, item)

\* replaceReferenceToParentField(fieldValue, currentWorkItem), the same in the
\* two builds
replaceReferenceToParentField(fieldValue, item) ==
    ReplaceEach(fieldValue, matchRuns(fieldValue, {"{", "}"}, "}"), 1, item)

\* a check of the key that lets the keys under System.Tags through
NeverTagsKey(key) == FALSE

\* key.indexOf('System.Tags') >= 0
IsTagsKey(key) == indexOf(key, SystemTags, 1) > 0

\* app.js isPropertyValid(taskTemplate, key)
isPropertyValid_js(template, key) ==
    IF ~HasOwn(template.fields, key) THEN Returned(FALSE)
    ELSE IF IsTagsKey(key) THEN Returned(FALSE)
    ELSE IF Get(template.fields, key).t # "string" THEN Thrown
    ELSE Returned(toLowerCase(Get(template.fields, key).s) \notin {AtMe, AtCurrentIteration})

\* app.ts isPropertyValid(taskTemplate, key)
isPropertyValid_ts(template, key) ==
    IF ~HasOwn(template.fields, key) THEN Returned(FALSE)
    ELSE IF IsTagsKey(key) THEN Returned(FALSE)
    ELSE Returned(~(/\ Get(template.fields, key).t = "string"
                    /\ toLowerCase(Get(template.fields, key).s)
                           \in {AtMe, AtCurrentIteration}))

\* an operation that loses its value
AddOpWithoutValue(key, value) ==
    [op |-> "add", path |-> FieldsPrefix \o key, value |-> Undefined]

\* one operation of the patch: { op: "add", path: "/fields/" + key, value }
AddOp(key, value) == [op |-> "add", path |-> FieldsPrefix \o key, value |-> value]

\* what createWorkItemFromTemplate returns: the patch, or an exception
Patch(ops) == [thrown |-> FALSE, val |-> ops]
PatchThrown == [thrown |-> TRUE, val |-> <<>>]

\* app.js: the loop over the template's fields
RECURSIVE TemplateOps_js(_, _, _)
TemplateOps_js(item, template, i) ==
    IF i > Len(template.fields.k) THEN <<>>
    ELSE LET key == template.fields.k[i]
             value == Get(template.fields, key)
         IN (IF ~isPropertyValid_js(template, key).val THEN <<>>
             ELSE IF Len(value.s) = 0
                  THEN IF IsNullish(Get(item, key)) THEN <<>>
                       ELSE <<AddOp(key, Get(item, key))>>
             ELSE <<AddOp(key, JStr(replaceReferenceToParentField(value.s, item)))>>)
            \o TemplateOps_js(item, template, i + 1)

\* app.js createWorkItemFromTemplate(currentWorkItem, taskTemplate, teamSettings)
createWorkItemFromTemplate_js(item, template, settings, user) ==
    LET fields == template.fields
        iteration == Get(fields, SystemIterationPath)
        assigned == Get(fields, SystemAssignedTo)
        useDefault == /\ Truthy(settings)
                      /\ Truthy(Get(settings, DefaultIterationKey))
                      /\ Truthy(Get(Get(settings, DefaultIterationKey), PathKey))
        titleOps == IF IsNullish(Get(fields, SystemTitle))
                    THEN <<AddOp(SystemTitle, Get(item, SystemTitle))>> ELSE <<>>
        areaOps == IF IsNullish(Get(fields, SystemAreaPath))
                   THEN <<AddOp(SystemAreaPath, Get(item, SystemAreaPath))>> ELSE <<>>
        iterationOps ==
            IF IsNullish(iteration)
            THEN <<AddOp(SystemIterationPath, Get(item, SystemIterationPath))>>
            ELSE IF toLowerCase(iteration.s) # AtCurrentIteration THEN <<>>
            ELSE IF useDefault
                 THEN <<AddOp(SystemIterationPath,
                              JStr(ToStr(Get(Get(settings, BacklogIterationKey), NameKey))
                                   \o ToStr(Get(Get(settings, DefaultIterationKey), PathKey))))>>
            ELSE <<AddOp(SystemIterationPath, Get(item, SystemIterationPath))>>
        assignedOps == IF ~IsNullish(assigned) /\ toLowerCase(assigned.s) = AtMe
                       THEN <<AddOp(SystemAssignedTo, Get(user, UniqueNameKey))>> ELSE <<>>
        tagOps == IF ~IsNullish(Get(fields, SystemTagsAdd))
                  THEN <<AddOp(SystemTags, Get(fields, SystemTagsAdd))>> ELSE <<>>
    IN IF \E i \in 1..Len(fields.k) : isPropertyValid_js(template, fields.k[i]).thrown
       THEN PatchThrown
       ELSE IF ~IsNullish(iteration) /\ iteration.t # "string" THEN PatchThrown
       ELSE IF /\ ~IsNullish(iteration) /\ toLowerCase(iteration.s) = AtCurrentIteration
               /\ useDefault /\ IsNullish(Get(settings, BacklogIterationKey))
            THEN PatchThrown
       ELSE IF /\ ~IsNullish(assigned) /\ toLowerCase(assigned.s) = AtMe
               /\ IsNullish(user)
            THEN PatchThrown
       ELSE Patch(TemplateOps_js(item, template, 1) \o titleOps \o areaOps
                  \o iterationOps \o assignedOps \o tagOps)

\* app.ts: the loop over Object.keys(fields)
RECURSIVE TemplateOps_ts(_, _, _)
TemplateOps_ts(item, template, i) ==
    IF i > Len(template.fields.k) THEN <<>>
    ELSE LET key == template.fields.k[i]
             value == Get(template.fields, key)
         IN (IF ~isPropertyValid_ts(template, key).val THEN <<>>
             ELSE IF ~Truthy(value) /\ ~IsNullish(Get(item, key))
                  THEN <<AddOp(key, Get(item, key))>>
             ELSE <<AddOp(key, JStr(replaceReferenceToParentField(value.s, item)))>>)
            \o TemplateOps_ts(item, template, i + 1)

\* app.ts createWorkItemFromTemplate(currentWorkItem, taskTemplate, teamSettings)
createWorkItemFromTemplate_ts(item, template, settings, user) ==
    LET fields == template.fields
        iteration == Get(fields, SystemIterationPath)
        assigned == Get(fields, SystemAssignedTo)
        name == Get(Get(settings, BacklogIterationKey), NameKey)
        backlogName == IF Truthy(name) THEN name ELSE JStr(<<>>)
        defaultPath == Get(Get(settings, DefaultIterationKey), PathKey)
        assignedTo == IF Truthy(Get(user, NameKey)) THEN Get(user, NameKey)
                      ELSE Get(user, DisplayNameKey)
        titleOps == IF IsNullish(Get(fields, SystemTitle))
                       /\ ~IsNullish(Get(item, SystemTitle))
                    THEN <<AddOp(SystemTitle, Get(item, SystemTitle))>> ELSE <<>>
        areaOps == IF IsNullish(Get(fields, SystemAreaPath))
                      /\ ~IsNullish(Get(item, SystemAreaPath))
                   THEN <<AddOp(SystemAreaPath, Get(item, SystemAreaPath))>> ELSE <<>>
        iterationOps ==
            IF IsNullish(iteration)
            THEN <<AddOp(SystemIterationPath, Get(item, SystemIterationPath))>>
            ELSE IF iteration.t # "string" \/ toLowerCase(iteration.s) # AtCurrentIteration
                 THEN <<>>
            ELSE IF Truthy(defaultPath)
                 THEN <<AddOp(SystemIterationPath,
                              IF Truthy(backlogName)
                              THEN JStr(ToStr(backlogName) \o ToStr(defaultPath))
                              ELSE defaultPath)>>
            ELSE <<AddOp(SystemIterationPath, Get(item, SystemIterationPath))>>
        assignedOps == IF /\ assigned.t = "string" /\ toLowerCase(assigned.s) = AtMe
                          /\ Truthy(user) /\ Truthy(assignedTo)
                       THEN <<AddOp(SystemAssignedTo, assignedTo)>> ELSE <<>>
        tagOps == IF ~IsNullish(Get(fields, SystemTagsAdd))
                  THEN <<AddOp(SystemTags, Get(fields, SystemTagsAdd))>> ELSE <<>>
    IN IF \E i \in 1..Len(fields.k) :
              /\ isPropertyValid_ts(template, fields.k[i]).val
              /\ Get(fields, fields.k[i]).t # "string"
              /\ Truthy(Get(fields, fields.k[i])) \/ IsNullish(Get(item, fields.k[i]))
       THEN PatchThrown
       ELSE Patch(TemplateOps_ts(item, template, 1) \o titleOps \o areaOps
                  \o iterationOps \o assignedOps \o tagOps)


(***************************************************************************)
(* The inputs of the synthesizer and the synthesizer as a state machine    *)
(***************************************************************************)
TitleFoo == <<"F", "o", "o">>
AreaOfParent == <<"A", "r", "e", "a">>
IterationOfParent == <<"I", "t", "e", "r", "a", "t", "i", "o", "n", "\\", "O", "l", "d">>
SubForTitle ==
    <<"S", "u", "b", " ", "f", "o", "r", " ", "{", "S", "y", "s", "t", "e", "m", ".", "T", "i", "t", "l", "e", "}">>
TitleTwice ==
    <<"{", "S", "y", "s", "t", "e", "m", ".", "T", "i", "t", "l", "e", "}", " ", "/", " ", "{", "S", "y", "s", "t", "e", "m", ".", "T", "i", "t", "l", "e", "}">>
TitleInArea ==
    <<"{", "S", "y", "s", "t", "e", "m", ".", "T", "i", "t", "l", "e", "}", " ", "i", "n", " ", "{", "S", "y", "s", "t", "e", "m", ".", "A", "r", "e", "a", "P", "a", "t", "h", "}">>
SeeMissing ==
    <<"S", "e", "e", " ", "{", "S", "y", "s", "t", "e", "m", ".", "M", "i", "s", "s", "i", "n", "g", "}">>
SystemDescription ==
    <<"S", "y", "s", "t", "e", "m", ".", "D", "e", "s", "c", "r", "i", "p", "t", "i", "o", "n">>
PriorityKey ==
    <<"M", "i", "c", "r", "o", "s", "o", "f", "t", ".", "V", "S", "T", "S", ".", "C", "o", "m", "m", "o", "n", ".", "P", "r", "i", "o", "r", "i", "t", "y">>
CustomNoteKey == <<"C", "u", "s", "t", "o", "m", ".", "N", "o", "t", "e">>
BacklogName == <<"B", "a", "c", "k", "l", "o", "g">>
SprintPath == <<"\\", "S", "p", "r", "i", "n", "t", " ", "1">>

\* the titles of the enumerated parents of the synthesizer
ParentTitleChars == {"a", "$", "&", "}"}
ParentTitles == StringsUpTo(ParentTitleChars, MaxTitleLen) \cup {TitleFoo}
SynthItems ==
    {Obj(<<SystemWorkItemType, SystemTitle, SystemAreaPath, SystemIterationPath>>,
         <<JStr(TypeBug), JStr(t), JStr(AreaOfParent), JStr(IterationOfParent)>>) :
        t \in ParentTitles}
    \cup {Obj(<<SystemWorkItemType>>, <<JStr(TypeBug)>>),
          Obj(<<SystemWorkItemType, SystemTitle>>, <<JStr(TypeBug), JStr(TitleFoo)>>)}

\* field maps of templates: literals, empty strings, placeholders, tokens
CurrentIterationMaps ==
    {Obj(<<SystemIterationPath>>, <<JStr(AtCurrentIteration)>>),
     Obj(<<SystemIterationPath, SystemAssignedTo>>,
         <<JStr(<<"@", "C", "u", "r", "r", "e", "n", "t", "I", "t", "e", "r", "a", "t", "i", "o", "n">>),
           JStr(AtMe)>>)}
FieldMaps ==
    {JObj(<<>>, <<>>),
     Obj(<<SystemTitle>>, <<JStr(SubForTitle)>>),
     Obj(<<SystemTitle>>, <<JStr(TitleTwice)>>),
     Obj(<<SystemTitle, SystemAreaPath, PriorityKey>>,
         <<JStr(<<>>), JStr(<<>>), JStr(<<"2">>)>>),
     Obj(<<SystemTagsAdd, SystemDescription>>,
         <<JStr(<<"n", "i", "g", "h", "t", "l", "y">>), JStr(SeeMissing)>>),
     Obj(<<CustomNoteKey, SystemIterationPath>>,
         <<JStr(TitleInArea), JStr(IterationOfParent)>>),
     Obj(<<SystemTags, SystemTagsAdd, SystemAssignedTo, SystemIterationPath, SystemTitle,
           CustomNoteKey>>,
         <<JStr(<<"o", "l", "d">>), JStr(<<"n", "i", "g", "h", "t", "l", "y">>), JStr(AtMe),
           JStr(AtCurrentIteration), JStr(<<>>), JStr(<<>>)>>)}
    \cup CurrentIterationMaps

\* team settings: none, the fallback { bugsBehavior } of app.ts, and what the
\* host returns for a team without and with a default iteration
FullTeamSettings ==
    Obj(<<BugsBehaviorKey, BacklogIterationKey, DefaultIterationKey>>,
        <<JStr(<<"O", "f", "f">>), Obj(<<NameKey>>, <<JStr(BacklogName)>>),
          Obj(<<PathKey>>, <<JStr(SprintPath)>>)>>)
TeamSettingsValues ==
    {Undefined,
     Obj(<<BugsBehaviorKey>>, <<JStr(<<"O", "f", "f">>)>>),
     Obj(<<BugsBehaviorKey, BacklogIterationKey>>,
         <<JStr(<<"O", "f", "f">>), Obj(<<NameKey>>, <<JStr(BacklogName)>>)>>),
     Obj(<<BugsBehaviorKey, BacklogIterationKey, DefaultIterationKey>>,
         <<JStr(<<"O", "f", "f">>), Obj(<<NameKey>>, <<JStr(BacklogName)>>),
           JObj(<<>>, <<>>)>>),
     FullTeamSettings}
\* app.js reads ctx.user of the web context; app.ts reads currentUser, null
\* until the SDK has reported the user
Users(build) == IF build = "js" THEN {HostUser} ELSE {HostUser, JNull}

SynthScenario(build, item, fieldMap, settings, user) ==
    [impl |-> build, currentWorkItem |-> item, filterElement |-> JObj(<<>>, <<>>),
     taskTemplate |-> [description |-> JStr(<<>>), fields |-> fieldMap],
     teamSettings |-> settings, currentUser |-> user]
SynthScenarios ==
    {SynthScenario(b, item, m, FullTeamSettings, HostUser) :
        <<b, item, m>> \in Builds \X SynthItems \X FieldMaps}
    \cup {SynthScenario(x[1], x[2], x[3], x[4], x[5]) :
            x \in {y \in Builds \X SynthItems \X CurrentIterationMaps \X TeamSettingsValues
                            \X {HostUser, JNull} :
                      /\ y[5] \in Users(y[1])
                      /\ Get(y[2], SystemTitle) \in {Undefined, JStr(TitleFoo)}}}

\* createWorkItemFromTemplate(currentWorkItem, taskTemplate, teamSettings)
CreateWorkItemFromTemplate ==
    /\ calls < MaxCalls
    /\ ret' = IF impl = "js"
              THEN createWorkItemFromTemplate_js(currentWorkItem, taskTemplate,
                                                 teamSettings, currentUser)
              ELSE createWorkItemFromTemplate_ts(currentWorkItem, taskTemplate,
                                                 teamSettings, currentUser)
    /\ call' = [op |-> "createWorkItemFromTemplate", field |-> <<>>]
    /\ calls' = calls + 1
    /\ UNCHANGED runVars
    /\ UNCHANGED <<impl, currentWorkItem, norm, filterElement, taskTemplate, teamSettings,
                   currentUser>>

\* replaceReferenceToParentField(taskTemplate.fields[key], currentWorkItem)
ReplaceReferenceToParentField(key) ==
    /\ calls < MaxCalls
    /\ Get(taskTemplate.fields, key).t = "string"
    /\ ret' = [thrown |-> FALSE,
               val |-> replaceReferenceToParentField(Get(taskTemplate.fields, key).s,
                                                     currentWorkItem)]
    /\ call' = [op |-> "replaceReferenceToParentField", field |-> key]
    /\ calls' = calls + 1
    /\ UNCHANGED runVars
    /\ UNCHANGED <<impl, currentWorkItem, norm, filterElement, taskTemplate, teamSettings,
                   currentUser>>

\* isPropertyValid(taskTemplate, key)
IsPropertyValid(key) ==
    /\ calls < MaxCalls
    /\ ret' = IF impl = "js" THEN isPropertyValid_js(taskTemplate, key)
              ELSE isPropertyValid_ts(taskTemplate, key)
    /\ call' = [op |-> "isPropertyValid", field |-> key]
    /\ calls' = calls + 1
    /\ UNCHANGED runVars
    /\ UNCHANGED <<impl, currentWorkItem, norm, filterElement, taskTemplate, teamSettings,
                   currentUser>>

NextSynth ==
    \/ CreateWorkItemFromTemplate
    \/ \E key \in Range(taskTemplate.fields.k) : ReplaceReferenceToParentField(key)
    \/ \E key \in Range(taskTemplate.fields.k) \cup {SystemTitle} : IsPropertyValid(key)

InitSynth == InitOf(SynthScenarios)
SpecSynth == InitSynth /\ [][NextSynth]_vars


(***************************************************************************)
(* Properties of the synthesizer                                           *)
(***************************************************************************)
\* the positions of the operations of a patch that write the field
OpsOf(patch, field) == {i \in 1..Len(patch) : patch[i].path = FieldsPrefix \o field}
InheritedFields == {SystemTitle, SystemAreaPath, SystemIterationPath}
Created == call.op = "createWorkItemFromTemplate"

RECURSIVE SubstituteAll(_, _)
SubstituteAll(text, item) ==
    IF Len(text) = 0 THEN <<>>
    ELSE LET closes == {j \in 2..Len(text) :
                          /\ text[j] = "}"
                          /\ \A k \in 2..(j - 1) : text[k] \notin {"{", "}"}}
             j == IF closes = {} THEN 0 ELSE Min(closes)
         IN IF text[1] = "{" /\ j > 2 /\ ~IsNullish(Get(item, SubSeq(text, 2, j - 1)))
            THEN ToStr(Get(item, SubSeq(text, 2, j - 1)))
                 \o SubstituteAll(SubSeq(text, j + 1, Len(text)), item)
            ELSE <<text[1]>> \o SubstituteAll(Tail(text), item)
\* the fields the placeholders of a text name
PlaceholdersOf(text) ==
    {SubSeq(text, i + 1, j - 1) :
        <<i, j>> \in {<<i, j>> \in Positions(text, "{") \X Positions(text, "}") :
                        i + 1 < j /\ \A k \in (i + 1)..(j - 1) : text[k] \notin {"{", "}"}}}

\* C9: for a template value whose placeholders name fields of the parent, the
\* synthesized value is the template value with every occurrence of every
\* {F} replaced by exactly the parent's value of F, whatever characters that
\* value holds.
C9_PlaceholderSubstitution ==
    (/\ call.op = "replaceReferenceToParentField"
     /\ PlaceholdersOf(Get(taskTemplate.fields, call.field).s) # {}
     /\ \A f \in PlaceholdersOf(Get(taskTemplate.fields, call.field).s) :
            Get(currentWorkItem, f).t = "string")
    => ret.val = SubstituteAll(Get(taskTemplate.fields, call.field).s, currentWorkItem)

\* the team settings carry a default iteration path
DefaultPathPresent ==
    /\ ~IsNullish(teamSettings)
    /\ ~IsNullish(Get(teamSettings, DefaultIterationKey))
    /\ ~IsNullish(Get(Get(teamSettings, DefaultIterationKey), PathKey))
AsksCurrentIteration ==
    /\ Get(taskTemplate.fields, SystemIterationPath).t = "string"
    /\ toLowerCase(Get(taskTemplate.fields, SystemIterationPath).s) = AtCurrentIteration

RECURSIVE SubstituteOrRemove(_, _)
SubstituteOrRemove(text, item) ==
    IF Len(text) = 0 THEN <<>>
    ELSE LET closes == {j \in 2..Len(text) :
                          /\ text[j] = "}"
                          /\ \A k \in 2..(j - 1) : text[k] \notin {"{", "}"}}
             j == IF closes = {} THEN 0 ELSE Min(closes)
         IN IF text[1] = "{" /\ j > 2
            THEN (IF IsNullish(Get(item, SubSeq(text, 2, j - 1))) THEN <<>>
                  ELSE ToStr(Get(item, SubSeq(text, 2, j - 1))))
                 \o SubstituteOrRemove(SubSeq(text, j + 1, Len(text)), item)
            ELSE <<text[1]>> \o SubstituteOrRemove(Tail(text), item)

\* C14: when a template value contains a placeholder {F} and the parent has
\* no value for F, the synthesized value is the template value with {F}
\* replaced by the empty string.
C14_MissingPlaceholderRemoved ==
    (/\ call.op = "replaceReferenceToParentField"
     /\ \E f \in PlaceholdersOf(Get(taskTemplate.fields, call.field).s) :
            IsNullish(Get(currentWorkItem, f))
     /\ \A f \in PlaceholdersOf(Get(taskTemplate.fields, call.field).s) :
            IsNullish(Get(currentWorkItem, f)))
    => ret.val = SubstituteOrRemove(Get(taskTemplate.fields, call.field).s, currentWorkItem)


(***************************************************************************)
(* extractJSON on prose around one JSON object (C19)                       *)
(***************************************************************************)
\* the part of a text from its first "{" to its last "}", parsed; what
\* precedes and follows it is free of braces
BracedPart(text) ==
    IF Positions(text, "{") = {} \/ Positions(text, "}") = {}
    THEN [ok |-> FALSE, v |-> Undefined]
    ELSE JSONparse(SubSeq(text, Min(Positions(text, "{")), Max(Positions(text, "}"))))

\* C19: for a description made of brace-free prose before and after exactly
\* one valid JSON object, whose string values may hold any characters,
\* braces included, extractJSON returns that object.
C19_ProseAroundOneObject ==
    (/\ call.op = "extractJSON"
     /\ taskTemplate.description.t = "string"
     /\ BracedPart(taskTemplate.description.s).ok
     /\ BracedPart(taskTemplate.description.s).v.t = "object")
    => (ret.found /\ ret.res = BracedPart(taskTemplate.description.s).v)


(***************************************************************************)
(* extractJSON on adversarial input: the number of parse attempts (C20)    *)
(***************************************************************************)
MaxBraces == 14    \* braces of one kind in an enumerated adversarial description
Repeat(c, n) == [i \in 1..n |-> c]
\* k opening braces followed by m closing braces
BraceRuns == {Repeat("{", k) \o Repeat("}", m) : <<k, m>> \in (0..MaxBraces) \X (0..MaxBraces)}
AttemptScenarios ==
    {Scenario(b, Obj(<<SystemWorkItemType>>, <<JStr(TypeBug)>>), JObj(<<>>, <<>>),
              Template(JStr(d))) :
        <<b, d>> \in Builds \X BraceRuns}
InitAttempts == InitOf(AttemptScenarios)
SpecAttempts == InitAttempts /\ [][NextMatch]_vars

\* C20: one call of extractJSON performs at most 100 JSON parse attempts in
\* total, the fast path included, before it returns.
C20_ParseAttemptsCapped ==
    call.op = "extractJSON" => ret.parses <= MAX_ATTEMPTS


(***************************************************************************)
(* The toolbar command: the data of the host                               *)
(***************************************************************************)
MaxTemplates == 3   \* Task templates of the team at the host
MaxBatch == 2       \* parent ids selected on the grid

TypeEpic == <<"E", "p", "i", "c">>
TypeFeature == <<"F", "e", "a", "t", "u", "r", "e">>
TypeUserStory == <<"U", "s", "e", "r", " ", "S", "t", "o", "r", "y">>
TypeIssue == <<"I", "s", "s", "u", "e">>
\* a custom type that the process puts in no category
TypeRisk == <<"R", "i", "s", "k">>

EpicCategory == "Microsoft.EpicCategory"
FeatureCategory == "Microsoft.FeatureCategory"
RequirementCategory == "Microsoft.RequirementCategory"
TaskCategory == "Microsoft.TaskCategory"
BugCategory == "Microsoft.BugCategory"

\* getWorkItemTypeCategories(project): the categories of the project
HostCategories ==
    <<[referenceName |-> EpicCategory, workItemTypes |-> <<TypeEpic>>],
      [referenceName |-> FeatureCategory, workItemTypes |-> <<TypeFeature>>],
      [referenceName |-> RequirementCategory, workItemTypes |-> <<TypeUserStory, TypeIssue>>],
      [referenceName |-> TaskCategory, workItemTypes |-> <<TypeTask>>],
      [referenceName |-> BugCategory, workItemTypes |-> <<TypeBug>>]>>
\* getWorkItemTypeCategory(project, referenceName)
HostCategory(referenceName) ==
    HostCategories[CHOOSE i \in 1..Len(HostCategories) :
                       HostCategories[i].referenceName = referenceName]

\* the work items of the project: the type of the item with id i
HostWorkItemType ==
    <<TypeUserStory, TypeEpic, TypeFeature, TypeTask, TypeBug, TypeIssue, TypeRisk>>
HostIds == 1..Len(HostWorkItemType)
\* getWorkItem(id).fields
HostFields(id) == Obj(<<SystemWorkItemType>>, <<JStr(HostWorkItemType[id])>>)
\* the ids selected on the grid for a batch
BatchIds == SubSeq(<<2, 7, 6>>, 1, MaxBatch)

\* a template description that lists the parent types it applies to
BracketList(type) == <<"[">> \o type \o <<"]">>
\* the templates of the team, in the order the host returns them
TaskTemplatePool ==
    <<[name |-> <<"B">>, workItemTypeName |-> TypeTask, description |-> BracketList(TypeUserStory)],
      [name |-> <<"a">>, workItemTypeName |-> TypeTask, description |-> BracketList(TypeUserStory)],
      [name |-> <<"c">>, workItemTypeName |-> TypeTask, description |-> BracketList(TypeTask)],
      [name |-> <<"D">>, workItemTypeName |-> TypeTask, description |-> BracketList(TypeUserStory)]>>
\* getTemplates(project, team, workItemType)
HostTemplates(workItemType) ==
    IF workItemType = TypeTask THEN SubSeq(TaskTemplatePool, 1, MaxTemplates)
    ELSE IF workItemType = TypeFeature
         THEN <<[name |-> <<"f">>, workItemTypeName |-> TypeFeature,
                 description |-> BracketList(TypeEpic)]>>
    ELSE <<>>
\* getTemplate(project, team, id): the detail the matcher reads
HostTemplate(t) == Template(JStr(t.description))

(***************************************************************************)
(* The toolbar command: pure helpers                                       *)
(***************************************************************************)
RECURSIVE Flatten(_)
Flatten(seqs) == IF Len(seqs) = 0 THEN <<>> ELSE Head(seqs) \o Flatten(Tail(seqs))

\* findWorkTypeCategory(categories, workItemType): the index of the first
\* category that holds the type, 0 (undefined) when there is none
findWorkTypeCategory(categories, workItemType) ==
    Min({i \in 1..Len(categories) :
             \E k \in 1..Len(categories[i].workItemTypes) :
                 categories[i].workItemTypes[k] = workItemType}
        \cup {Len(categories) + 1}) % (Len(categories) + 1)

\* getChildTypes: the categories requested for a parent of the category
\* referenceName when the code sees the bugs behaviour bugMode
ChildCategories(referenceName, bugMode) ==
    IF referenceName = EpicCategory THEN <<FeatureCategory>>
    ELSE IF referenceName = FeatureCategory
         THEN <<RequirementCategory>>
              \o (IF bugMode = "AsRequirements" THEN <<BugCategory>> ELSE <<>>)
    ELSE IF referenceName = RequirementCategory
         THEN <<TaskCategory>> \o (IF bugMode = "AsTasks" THEN <<BugCategory>> ELSE <<>>)
    ELSE IF referenceName = TaskCategory THEN <<TaskCategory>>
    ELSE IF referenceName = BugCategory THEN <<TaskCategory>>
    ELSE <<>>
\* app.js: workClient.getTeamSettings(team).bugsBehavior is a property of a
\* promise
bugsBehavior_js == "undefined"
\* the names of the types of the requested categories, in order
ChildTypeNames(referenceNames) ==
    Flatten([i \in 1..Len(referenceNames) |-> HostCategory(referenceNames[i]).workItemTypes])
\* getTemplates(childTypes): the templates of every child type, in order
TemplatesOfTypes(childTypes) ==
    Flatten([i \in 1..Len(childTypes) |-> HostTemplates(childTypes[i])])

\* the UTF-16 code unit of a character of a template name
CodeUnit(c) ==
    IF c \in UpperSet THEN 64 + (CHOOSE i \in 1..26 : UpperLetters[i] = c)
    ELSE IF c \in LowerSet THEN 96 + (CHOOSE i \in 1..26 : LowerLetters[i] = c)
    ELSE 32
\* a < b on JavaScript strings
StringLess(a, b) ==
    \E k \in 1..Len(b) :
        /\ \A j \in 1..(k - 1) : j <= Len(a) /\ a[j] = b[j]
        /\ k > Len(a) \/ CodeUnit(a[k]) < CodeUnit(b[k])
\* a comparator that leaves the order of the host
keepOrder(a, b) == 0
\* sortTemplates(a, b)
sortTemplates(a, b) ==
    IF StringLess(toLowerCase(a.name), toLowerCase(b.name)) THEN -1
    ELSE IF StringLess(toLowerCase(b.name), toLowerCase(a.name)) THEN 1
    ELSE 0
\* templates.sort(sortTemplates): a stable sort
RECURSIVE SortTemplates(_)
InsertTemplate(t, sorted) ==
    LET after == {i \in 1..Len(sorted) : sortTemplates(t, sorted[i]) < 0}
        at == IF after = {} THEN Len(sorted) + 1 ELSE Min(after)
    IN SubSeq(sorted, 1, at - 1) \o <<t>> \o SubSeq(sorted, at, Len(sorted))
SortTemplates(templates) ==
    IF Len(templates) = 0 THEN <<>>
    ELSE InsertTemplate(templates[Len(templates)],
                        SortTemplates(SubSeq(templates, 1, Len(templates) - 1)))

\* the team settings as a JS value
BugsBehaviorText(mode) ==
    CASE mode = "AsTasks" -> <<"A", "s", "T", "a", "s", "k", "s">>
      [] mode = "AsRequirements" ->
             <<"A", "s", "R", "e", "q", "u", "i", "r", "e", "m", "e", "n", "t", "s">>
      [] OTHER -> <<"O", "f", "f">>
SettingsOf(mode) == Obj(<<BugsBehaviorKey>>, <<JStr(BugsBehaviorText(mode))>>)
\* createWorkItemFromTemplate(currentWorkItem, taskTemplate, teamSettings)
\* throws for the template t
SynthesisThrows(build, fields, t, mode) ==
    IF build = "js"
    THEN createWorkItemFromTemplate_js(fields, HostTemplate(t), SettingsOf(mode),
                                       HostUser).thrown
    ELSE createWorkItemFromTemplate_ts(fields, HostTemplate(t), SettingsOf(mode),
                                       HostUser).thrown

\* the filter of one template against the parent, any exception contained:
\* app.js 393-399, app.ts 1267-1269 (isValidTemplateTitle always holds)
Applies(build, fields, t) ==
    IF build = "js"
    THEN \E r \in {isValidTemplateWIT_js(fields, NoNorm, HostTemplate(t))} :
             ~r.thrown /\ r.val
    ELSE \E r \in {isValidTemplateWIT_ts(fields, HostTemplate(t))} :
             ~r.thrown /\ r.val


(***************************************************************************)
(* The toolbar command: state                                              *)
(* A request to the host stands for the chain of calls the code makes for  *)
(* one piece of data (the access token and the candidate URLs of a REST    *)
(* call, the REST routes and the client fallback of a read); the create    *)
(* and link calls of app.ts keep their REST call and their client fallback *)
(* apart.  The payload of a create request is what                         *)
(* createWorkItemFromTemplate returns; the request keeps the template name.*)
(***************************************************************************)
NewRun ==
    [pc |-> "notStarted", type |-> <<>>, settings |-> "Off", category |-> -1,
     categories |-> <<>>,
     childTypes |-> <<>>, templates |-> <<>>, details |-> <<>>, toCreate |-> <<>>,
     idx |-> 0, log |-> <<>>]
Req(p, kind) == [run |-> p, kind |-> kind, tpl |-> <<>>, abandoned |-> FALSE]
ReqT(p, kind, name) == [run |-> p, kind |-> kind, tpl |-> name, abandoned |-> FALSE]
Event(e, name) == [e |-> e, tpl |-> name]
Logged(r, e, name) == [r EXCEPT !.log = Append(@, Event(e, name))]
\* the host has applied a create request: a child work item of the template
\* exists from now on
HostCreated(r, name) == Logged(r, "hostCreated", name)

\* the ways a command is invoked: on the form of an open item, on the grid
\* for one id, on the grid for a batch
Contexts ==
    {[surface |-> s, ids |-> <<i>>] : <<s, i>> \in {"form", "grid"} \X HostIds}
    \cup {[surface |-> "grid", ids |-> BatchIds]}
BugsBehaviors == {"Off", "AsTasks", "AsRequirements"}

InitRunOf(contexts) ==
    /\ impl \in Builds
    /\ currentWorkItem = Undefined
    /\ norm = NoNorm
    /\ filterElement = Undefined
    /\ taskTemplate = Template(Undefined)
    /\ teamSettings = Undefined
    /\ currentUser = HostUser
    /\ call = NoCall
    /\ ret = NoResult
    /\ calls = 0
    /\ \E c \in contexts :
           /\ surface = c.surface
           /\ workItemIds = c.ids
           /\ runs = [p \in Range(c.ids) |-> NewRun]
    /\ bugsBehavior \in BugsBehaviors
    /\ invocation = [pc |-> "idle", idx |-> 0]
    /\ inFlight = {}
InitRun == InitRunOf(Contexts)

(***************************************************************************)
(* The toolbar command of app.js                                           *)
(***************************************************************************)
\* create(context): the form starts addTasks for the open item, the grid
\* starts addTasks for every id at once
Create_js ==
    /\ impl = "js"
    /\ surface # "none"
    /\ invocation.pc = "idle"
    /\ invocation' = [pc |-> "returned", idx |-> 0]
    /\ runs' = [p \in DOMAIN runs |-> [runs[p] EXCEPT !.pc = "teamSettings"]]
    /\ inFlight' = {Req(p, "teamSettings") : p \in DOMAIN runs}
    /\ UNCHANGED <<impl, matchVars, surface, workItemIds, bugsBehavior>>

\* a handler of the run p: the run becomes r and flight are the requests
\* with the host; in Handled the request req is answered and sent are sent
Step(p, r, flight) ==
    /\ runs' = [runs EXCEPT ![p] = r]
    /\ inFlight' = flight
    /\ UNCHANGED <<impl, matchVars, surface, workItemIds, bugsBehavior, invocation>>
Handled(p, req, r, sent) == Step(p, r, (inFlight \ {req}) \cup sent)
\* a rejection that no handler takes
Rejected_js(p, req) == Handled(p, req, [runs[p] EXCEPT !.pc = "rejected"], {})

\* workClient.getTeamSettings(team).then(...)
OnTeamSettings_js(p, ok) ==
    /\ impl = "js"
    /\ Req(p, "teamSettings") \in inFlight
    /\ IF ok
       THEN Handled(p, Req(p, "teamSettings"),
                    [runs[p] EXCEPT !.pc = "workItem", !.settings = bugsBehavior],
                    {Req(p, "workItem")})
       ELSE Rejected_js(p, Req(p, "teamSettings"))

\* witClient.getWorkItem(workItemId).then(...)
OnWorkItem_js(p, ok) ==
    /\ impl = "js"
    /\ Req(p, "workItem") \in inFlight
    /\ IF ok
       THEN Handled(p, Req(p, "workItem"),
                    [runs[p] EXCEPT !.pc = "categories", !.type = HostWorkItemType[p]],
                    {Req(p, "categories")})
       ELSE Rejected_js(p, Req(p, "workItem"))

\* getChildTypes: getWorkItemTypeCategories(project).then(...); category is
\* the index findWorkTypeCategory returned.  category !== null holds for
\* undefined as well, and category.referenceName then throws
CategoriesFound_js(p, category) ==
    IF category = 0
    THEN Handled(p, Req(p, "categories"),
                 [runs[p] EXCEPT !.pc = "rejected", !.category = 0], {})
    ELSE Handled(p, Req(p, "categories"),
                 [runs[p] EXCEPT !.pc = "childCategories", !.category = category,
                                 !.categories =
                                     ChildCategories(HostCategories[category].referenceName,
                                                     bugsBehavior_js)],
                 {Req(p, "childCategories")})
OnCategories_js(p, ok) ==
    /\ impl = "js"
    /\ Req(p, "categories") \in inFlight
    /\ IF ok
       THEN CategoriesFound_js(p, findWorkTypeCategory(HostCategories, runs[p].type))
       ELSE Rejected_js(p, Req(p, "categories"))

\* getChildTypes: the category requests are answered; getTemplates(childTypes)
OnChildCategories_js(p, ok) ==
    /\ impl = "js"
    /\ Req(p, "childCategories") \in inFlight
    /\ IF ok
       THEN Handled(p, Req(p, "childCategories"),
                    [runs[p] EXCEPT !.pc = "templates",
                                    !.childTypes = ChildTypeNames(runs[p].categories)],
                    {Req(p, "templates")})
       ELSE Rejected_js(p, Req(p, "childCategories"))

\* getTemplates(childTypes).then(...): sort, then prefetch every detail
TemplatesFetched_js(p, response) ==
    IF Len(response) = 0
    THEN Handled(p, Req(p, "templates"),
                 Logged([runs[p] EXCEPT !.pc = "done"], "dialog", <<>>), {})
    ELSE Handled(p, Req(p, "templates"),
                 [runs[p] EXCEPT !.pc = "details",
                                 !.templates = SortTemplates(response),
                                 !.details = [i \in 1..Len(response) |-> "pending"]],
                 {ReqT(p, "detail", response[i].name) : i \in 1..Len(response)})
OnTemplates_js(p, ok) ==
    /\ impl = "js"
    /\ Req(p, "templates") \in inFlight
    /\ IF ok
       THEN TemplatesFetched_js(p, TemplatesOfTypes(runs[p].childTypes))
       ELSE Rejected_js(p, Req(p, "templates"))

\* the next link of the chain: createWorkItemViaRest for the next template
\* of toCreate, or the end of the chain, which reloads the view on the grid.
\* createWorkItemFromTemplate runs before the promise that .catch guards
\* exists: if it throws, the chain is rejected and its remaining links and
\* its end are skipped
Advance_js(p, r) ==
    IF r.idx < Len(r.toCreate)
    THEN IF SynthesisThrows("js", HostFields(p), r.toCreate[r.idx + 1], r.settings)
         THEN [r EXCEPT !.pc = "rejected", !.idx = r.idx + 1]
         ELSE Logged([r EXCEPT !.pc = "create", !.idx = r.idx + 1],
                     "create", r.toCreate[r.idx + 1].name)
    ELSE IF surface = "grid"
         THEN Logged([r EXCEPT !.pc = "done"], "reload", <<>>)
         ELSE [r EXCEPT !.pc = "done"]
\* the request the run sends on entering r
Sent_js(p, r) ==
    IF r.pc = "create" THEN {ReqT(p, "create", r.toCreate[r.idx].name)} ELSE {}
Chained_js(p, req, r) == Handled(p, req, r, Sent_js(p, r))

\* the templates whose detail arrived and whose filter holds for the parent
ToCreate_js(p, templates, details) ==
    SelectSeq(templates,
              LAMBDA t : /\ \E i \in 1..Len(templates) :
                                templates[i] = t /\ details[i] = "ok"
                         /\ Applies("js", HostFields(p), t))
\* getTemplate(t.id) is answered: the detail or null; with the last answer
\* Q.all resolves, the templates are filtered and the chain starts
DetailsFetched_js(p, req, details) ==
    IF \E i \in 1..Len(details) : details[i] = "pending"
    THEN Handled(p, req, [runs[p] EXCEPT !.details = details], {})
    ELSE Chained_js(p, req,
             Advance_js(p, [runs[p] EXCEPT !.details = details,
                                        !.toCreate = ToCreate_js(p, runs[p].templates,
                                                                 details)]))
OnTemplateDetail_js(p, i, ok) ==
    /\ impl = "js"
    /\ i \in 1..Len(runs[p].templates)
    /\ ReqT(p, "detail", runs[p].templates[i].name) \in inFlight
    /\ DetailsFetched_js(p, ReqT(p, "detail", runs[p].templates[i].name),
                         [runs[p].details EXCEPT ![i] = IF ok THEN "ok" ELSE "failed"])

\* a chain without the catch: a failure rejects it
Uncaught_js(p, r, e) == [r EXCEPT !.pc = "rejected"]
\* a failure of the link of the chain for the current template: the catch
\* of app.js 407-413 takes it and the chain goes on
Caught_js(p, r, e) == Advance_js(p, Logged(r, e, r.toCreate[r.idx].name))

\* restJsonPatch(createUrl, ...) is answered
OnCreated_js(p, ok) ==
    /\ impl = "js"
    /\ runs[p].pc = "create"
    /\ ReqT(p, "create", runs[p].toCreate[runs[p].idx].name) \in inFlight
    /\ IF ok
       THEN Handled(p, ReqT(p, "create", runs[p].toCreate[runs[p].idx].name),
                    HostCreated([runs[p] EXCEPT !.pc = "link"],
                                runs[p].toCreate[runs[p].idx].name),
                    {ReqT(p, "link", runs[p].toCreate[runs[p].idx].name)})
       ELSE Chained_js(p, ReqT(p, "create", runs[p].toCreate[runs[p].idx].name),
                       Caught_js(p, runs[p], "createFailed"))

\* the host applies the create and the response does not reach the caller:
\* the request ends with an error status and restJsonPatch rejects
OnCreateLost_js(p) ==
    /\ impl = "js"
    /\ runs[p].pc = "create"
    /\ ReqT(p, "create", runs[p].toCreate[runs[p].idx].name) \in inFlight
    /\ Chained_js(p, ReqT(p, "create", runs[p].toCreate[runs[p].idx].name),
                  Caught_js(p, HostCreated(runs[p], runs[p].toCreate[runs[p].idx].name),
                            "createFailed"))

\* restJsonPatch(parentUpdateUrl, ...) is answered
OnLinked_js(p, ok) ==
    /\ impl = "js"
    /\ runs[p].pc = "link"
    /\ ReqT(p, "link", runs[p].toCreate[runs[p].idx].name) \in inFlight
    /\ Chained_js(p, ReqT(p, "link", runs[p].toCreate[runs[p].idx].name),
                  IF ok THEN Advance_js(p, runs[p]) ELSE Caught_js(p, runs[p], "linkFailed"))

NextRun_js ==
    \/ Create_js
    \/ \E p \in DOMAIN runs, ok \in BOOLEAN :
           \/ OnTeamSettings_js(p, ok)
           \/ OnWorkItem_js(p, ok)
           \/ OnCategories_js(p, ok)
           \/ OnChildCategories_js(p, ok)
           \/ OnTemplates_js(p, ok)
           \/ \E i \in 1..MaxTemplates : OnTemplateDetail_js(p, i, ok)
           \/ OnCreated_js(p, ok)
           \/ OnLinked_js(p, ok)
    \/ \E p \in DOMAIN runs : OnCreateLost_js(p)


(***************************************************************************)
(* The toolbar command of app.ts                                           *)
(***************************************************************************)
\* create(context): the form awaits addTasks for the open item, the grid
\* awaits addTasks for the first id of its loop
Create_ts ==
    /\ impl = "ts"
    /\ surface # "none"
    /\ invocation.pc = "idle"
    /\ invocation' = [pc |-> "awaiting", idx |-> 1]
    /\ runs' = [runs EXCEPT ![workItemIds[1]] = [@ EXCEPT !.pc = "workItem"]]
    /\ inFlight' = {Req(workItemIds[1], "workItem")}
    /\ UNCHANGED <<impl, matchVars, surface, workItemIds, bugsBehavior>>

Answered(req) == inFlight \ {req}
\* the requests with the host after withTimeout has given up on req
Abandoned(req) == (inFlight \ {req}) \cup {[req EXCEPT !.abandoned = TRUE]}

\* addTasks of p returns with the run r, the requests rest staying with the
\* host: the loop of create goes on to the next id, or create returns.
Returns_ts(p, rest, r) ==
    /\ IF invocation.idx < Len(workItemIds)
       THEN /\ runs' = [runs EXCEPT ![p] = [r EXCEPT !.pc = "done"],
                                    ![workItemIds[invocation.idx + 1]] =
                                        [@ EXCEPT !.pc = "workItem"]]
            /\ invocation' = [invocation EXCEPT !.idx = invocation.idx + 1]
            /\ inFlight' = rest \cup {Req(workItemIds[invocation.idx + 1], "workItem")}
       ELSE /\ runs' = [runs EXCEPT ![p] = [r EXCEPT !.pc = "done"]]
            /\ invocation' = [invocation EXCEPT !.pc = "returned"]
            /\ inFlight' = rest
    /\ UNCHANGED <<impl, matchVars, surface, workItemIds, bugsBehavior>>
\* addTasks of p throws: the await in the loop of create throws and the catch
\* of run takes it
Rejects_ts(p, rest) ==
    /\ runs' = [runs EXCEPT ![p] = [@ EXCEPT !.pc = "rejected"]]
    /\ invocation' = [invocation EXCEPT !.pc = "caught"]
    /\ inFlight' = rest
    /\ UNCHANGED <<impl, matchVars, surface, workItemIds, bugsBehavior>>

\* getWorkItemData(workItemId) is settled; team settings are asked for a
\* parent type that matches /^(Bug|Issue)$/i only
NeedsBugBehavior(type) == toLowerCase(type) \in {toLowerCase(TypeBug), toLowerCase(TypeIssue)}
OnWorkItem_ts(p, ok) ==
    /\ impl = "ts"
    /\ Req(p, "workItem") \in inFlight
    /\ IF ~ok THEN Rejects_ts(p, Answered(Req(p, "workItem")))
       ELSE IF NeedsBugBehavior(HostWorkItemType[p])
            THEN Handled(p, Req(p, "workItem"),
                         [runs[p] EXCEPT !.pc = "teamSettings", !.type = HostWorkItemType[p]],
                         {Req(p, "teamSettings")})
       ELSE Handled(p, Req(p, "workItem"),
                    [runs[p] EXCEPT !.pc = "categories", !.type = HostWorkItemType[p]],
                    {Req(p, "categories")})

\* getTeamSettingsData(teamContext) is settled; a failure leaves Off
OnTeamSettings_ts(p, ok) ==
    /\ impl = "ts"
    /\ Req(p, "teamSettings") \in inFlight
    /\ Handled(p, Req(p, "teamSettings"),
               [runs[p] EXCEPT !.pc = "categories",
                               !.settings = IF ok THEN bugsBehavior ELSE "Off"],
               {Req(p, "categories")})

\* getChildTypes: fetchWorkItemTypeCategoriesViaRest() is settled; category
\* is the index findWorkTypeCategory returned
CategoriesFound_ts(p, category) ==
    IF category = 0
    THEN Returns_ts(p, Answered(Req(p, "categories")), [runs[p] EXCEPT !.category = 0])
    ELSE Handled(p, Req(p, "categories"),
                 [runs[p] EXCEPT !.pc = "childCategories", !.category = category,
                                 !.categories =
                                     ChildCategories(HostCategories[category].referenceName,
                                                     runs[p].settings)],
                 {Req(p, "childCategories")})
OnCategories_ts(p, ok) ==
    /\ impl = "ts"
    /\ Req(p, "categories") \in inFlight
    /\ IF ok
       THEN CategoriesFound_ts(p, findWorkTypeCategory(HostCategories, runs[p].type))
       ELSE Returns_ts(p, Answered(Req(p, "categories")), runs[p])

\* getChildTypes: the category requests are settled.  A failure gives null
\* for an Epic parent and is thrown by Promise.all for the others
OnChildCategories_ts(p, ok) ==
    /\ impl = "ts"
    /\ Req(p, "childCategories") \in inFlight
    /\ IF ok
       THEN Handled(p, Req(p, "childCategories"),
                    [runs[p] EXCEPT !.pc = "templates",
                                    !.childTypes = ChildTypeNames(runs[p].categories)],
                    {Req(p, "templates")})
       ELSE IF HostCategories[runs[p].category].referenceName = EpicCategory
            THEN Returns_ts(p, Answered(Req(p, "childCategories")), runs[p])
       ELSE Rejects_ts(p, Answered(Req(p, "childCategories")))

\* createChildFromTemplate for the next template of the sorted list: its
\* detail is asked; after the last template addTasks returns
Continue_ts(p, rest, r) ==
    IF r.idx < Len(r.templates)
    THEN Step(p, [r EXCEPT !.pc = "detail", !.idx = r.idx + 1],
              rest \cup {ReqT(p, "detail", r.templates[r.idx + 1].name)})
    ELSE Returns_ts(p, rest, r)
\* the catch of createChildFromTemplate takes a failure of the current template
Caught_ts(p, rest, r, e) == Continue_ts(p, rest, Logged(r, e, r.templates[r.idx].name))

\* getTemplates(childTypes) is settled; a failure gives no templates
TemplatesFetched_ts(p, response) ==
    IF Len(response) = 0
    THEN Returns_ts(p, Answered(Req(p, "templates")), Logged(runs[p], "dialog", <<>>))
    ELSE Continue_ts(p, Answered(Req(p, "templates")),
                     [runs[p] EXCEPT !.templates = SortTemplates(response)])
OnTemplates_ts(p, ok) ==
    /\ impl = "ts"
    /\ Req(p, "templates") \in inFlight
    /\ TemplatesFetched_ts(p, IF ok THEN TemplatesOfTypes(runs[p].childTypes) ELSE <<>>)

\* the request of the current template of the run p
Current_ts(p, kind) == ReqT(p, kind, runs[p].templates[runs[p].idx].name)
Awaits_ts(p, kind) ==
    /\ impl = "ts"
    /\ runs[p].pc = kind
    /\ Current_ts(p, kind) \in inFlight

\* getTemplate(template.id) is settled: the filter, then restCreateWorkItem
OnTemplateDetail_ts(p, ok) ==
    /\ Awaits_ts(p, "detail")
    /\ IF ~ok THEN Caught_ts(p, Answered(Current_ts(p, "detail")), runs[p], "detailFailed")
       ELSE IF ~Applies("ts", HostFields(p), runs[p].templates[runs[p].idx])
            THEN Continue_ts(p, Answered(Current_ts(p, "detail")), runs[p])
       ELSE IF SynthesisThrows("ts", HostFields(p), runs[p].templates[runs[p].idx],
                               runs[p].settings)
            THEN Caught_ts(p, Answered(Current_ts(p, "detail")), runs[p], "createFailed")
       ELSE Handled(p, Current_ts(p, "detail"),
                    Logged([runs[p] EXCEPT !.pc = "create"], "create",
                           runs[p].templates[runs[p].idx].name),
                    {Current_ts(p, "create")})

\* the child exists: the form adds the relation, the grid updates the parent
Created_ts(p, req) ==
    IF surface = "form"
    THEN Handled(p, req,
                 HostCreated([runs[p] EXCEPT !.pc = "addRelation"],
                             runs[p].templates[runs[p].idx].name),
                 {Current_ts(p, "addRelation")})
    ELSE Handled(p, req,
                 HostCreated([runs[p] EXCEPT !.pc = "link"],
                             runs[p].templates[runs[p].idx].name),
                 {Current_ts(p, "link")})

\* restCreateWorkItem is settled; a failure falls back to the client call
\* under withTimeout
OnCreated_ts(p, ok) ==
    /\ Awaits_ts(p, "create")
    /\ IF ok THEN Created_ts(p, Current_ts(p, "create"))
       ELSE Handled(p, Current_ts(p, "create"), [runs[p] EXCEPT !.pc = "createClient"],
                    {Current_ts(p, "createClient")})

\* the host applies the create of restCreateWorkItem and the response does
\* not reach the caller (the connection drops, or the body of the response
\* is not JSON): adoFetch throws for each candidate URL, and createWorkItem
\* falls back to the client call
OnCreateLost_ts(p) ==
    /\ Awaits_ts(p, "create")
    /\ Handled(p, Current_ts(p, "create"),
               HostCreated([runs[p] EXCEPT !.pc = "createClient"],
                           runs[p].templates[runs[p].idx].name),
               {Current_ts(p, "createClient")})

\* witClient.createWorkItem is settled before the timeout
OnCreatedClient_ts(p, ok) ==
    /\ Awaits_ts(p, "createClient")
    /\ IF ok THEN Created_ts(p, Current_ts(p, "createClient"))
       ELSE Caught_ts(p, Answered(Current_ts(p, "createClient")), runs[p], "createFailed")

\* withTimeout rejects: the request it wrapped stays with the host
OnCreateTimeout_ts(p) ==
    /\ Awaits_ts(p, "createClient")
    /\ Caught_ts(p, Abandoned(Current_ts(p, "createClient")), runs[p], "createFailed")

\* service.addWorkItemRelations is settled (form); then service.save()
OnRelationAdded_ts(p, ok) ==
    /\ Awaits_ts(p, "addRelation")
    /\ IF ok
       THEN Handled(p, Current_ts(p, "addRelation"),
                    Logged([runs[p] EXCEPT !.pc = "save"], "save",
                           runs[p].templates[runs[p].idx].name),
                    {Current_ts(p, "save")})
       ELSE Caught_ts(p, Answered(Current_ts(p, "addRelation")), runs[p], "linkFailed")

\* service.save() is settled (form)
OnSaved_ts(p, ok) ==
    /\ Awaits_ts(p, "save")
    /\ IF ok THEN Continue_ts(p, Answered(Current_ts(p, "save")), runs[p])
       ELSE Caught_ts(p, Answered(Current_ts(p, "save")), runs[p], "saveFailed")

\* the parent is linked (grid): navigationService.reload()
Linked_ts(p, req) ==
    Handled(p, req,
            Logged([runs[p] EXCEPT !.pc = "reload"], "reload",
                   runs[p].templates[runs[p].idx].name),
            {Current_ts(p, "reload")})

\* restUpdateWorkItemLinks is settled (grid); a failure falls back to the
\* client call under withTimeout
OnLinked_ts(p, ok) ==
    /\ Awaits_ts(p, "link")
    /\ IF ok THEN Linked_ts(p, Current_ts(p, "link"))
       ELSE Handled(p, Current_ts(p, "link"), [runs[p] EXCEPT !.pc = "linkClient"],
                    {Current_ts(p, "linkClient")})

\* witClient.updateWorkItem is settled before the timeout
OnLinkedClient_ts(p, ok) ==
    /\ Awaits_ts(p, "linkClient")
    /\ IF ok THEN Linked_ts(p, Current_ts(p, "linkClient"))
       ELSE Caught_ts(p, Answered(Current_ts(p, "linkClient")), runs[p], "linkFailed")

\* withTimeout rejects the link: the request it wrapped stays with the host
OnLinkTimeout_ts(p) ==
    /\ Awaits_ts(p, "linkClient")
    /\ Caught_ts(p, Abandoned(Current_ts(p, "linkClient")), runs[p], "linkFailed")

\* navigationService.reload() is settled (grid)
OnReloaded_ts(p, ok) ==
    /\ Awaits_ts(p, "reload")
    /\ IF ok THEN Continue_ts(p, Answered(Current_ts(p, "reload")), runs[p])
       ELSE Caught_ts(p, Answered(Current_ts(p, "reload")), runs[p], "reloadFailed")

\* the host settles a request that withTimeout has given up on: nobody
\* listens
OnAbandoned(req) ==
    /\ req \in inFlight
    /\ req.abandoned
    /\ inFlight' = inFlight \ {req}
    /\ UNCHANGED <<impl, matchVars, surface, workItemIds, bugsBehavior, invocation, runs>>

NextRun_ts ==
    \/ Create_ts
    \/ \E p \in DOMAIN runs, ok \in BOOLEAN :
           \/ OnWorkItem_ts(p, ok)
           \/ OnTeamSettings_ts(p, ok)
           \/ OnCategories_ts(p, ok)
           \/ OnChildCategories_ts(p, ok)
           \/ OnTemplates_ts(p, ok)
           \/ OnTemplateDetail_ts(p, ok)
           \/ OnCreated_ts(p, ok)
           \/ OnCreatedClient_ts(p, ok)
           \/ OnRelationAdded_ts(p, ok)
           \/ OnSaved_ts(p, ok)
           \/ OnLinked_ts(p, ok)
           \/ OnLinkedClient_ts(p, ok)
           \/ OnReloaded_ts(p, ok)
    \/ \E p \in DOMAIN runs :
           \/ OnCreateTimeout_ts(p)
           \/ OnLinkTimeout_ts(p)
           \/ OnCreateLost_ts(p)
    \/ \E req \in inFlight : OnAbandoned(req)

NextRun == NextRun_js \/ NextRun_ts
SpecRun == InitRun /\ [][NextRun]_vars


(***************************************************************************)
(* The child types of a parent (C15)                                       *)
(***************************************************************************)
\* the child category of each parent category
ChildCategoryTable ==
    [c \in {EpicCategory, FeatureCategory, RequirementCategory, TaskCategory, BugCategory} |->
        CASE c = EpicCategory -> FeatureCategory
          [] c = FeatureCategory -> RequirementCategory
          [] OTHER -> TaskCategory]
\* whether bugs are managed on the same backlog level as the children of c
BugsAreChildrenOf(c, mode) ==
    \/ c = FeatureCategory /\ mode = "AsRequirements"
    \/ c = RequirementCategory /\ mode = "AsTasks"
TableChildTypes(c, mode) ==
    Range(HostCategory(ChildCategoryTable[c]).workItemTypes)
    \cup (IF BugsAreChildrenOf(c, mode) THEN Range(HostCategory(BugCategory).workItemTypes)
          ELSE {})

\* C15: the child types a run resolves are the types of the category that
\* the table Epic->Feature, Feature->Requirement, Requirement->Task,
\* Task->Task, Bug->Task gives for the parent's category, together with the
\* types of the Bug category for a Feature parent when the team's
\* bugsBehavior is AsRequirements and for a Requirement parent when it is
\* AsTasks.
C15_ChildTypesTable ==
    \A p \in DOMAIN runs :
        runs[p].childTypes # <<>> =>
            Range(runs[p].childTypes)
                = TableChildTypes(HostCategories[runs[p].category].referenceName, bugsBehavior)


(***************************************************************************)
(* A parent whose type is in no category (C16)                             *)
(***************************************************************************)
\* C16: when the categories the host returned hold the parent's type in
\* none of them, the run has ended normally: it is done, not rejected, it
\* fetched no template, issued no request and registered nothing.
C16_NoCategoryEndsNormally ==
    \A p \in DOMAIN runs :
        runs[p].category = 0 =>
            /\ runs[p].pc = "done"
            /\ runs[p].templates = <<>>
            /\ runs[p].log = <<>>
            /\ \A req \in inFlight : req.run # p


(***************************************************************************)
(* The order of the create requests (C11)                                  *)
(***************************************************************************)
\* the positions of the log of a run at which the create request of the
\* template name was issued
CreateIssuedAt(r, name) == {k \in 1..Len(r.log) : r.log[k] = Event("create", name)}
\* the detail of the template name could not be fetched in the run
DetailFailed(r, name) ==
    \/ \E i \in 1..Len(r.details) : r.templates[i].name = name /\ r.details[i] = "failed"
    \/ \E k \in 1..Len(r.log) : r.log[k] = Event("detailFailed", name)

\* C11: in every run, when the create request of a template B has been
\* issued, the create request of every applicable template A whose
\* lower-cased name is less than B's was issued before it (unless the detail
\* of A could not be fetched), and A's request is never issued after B's.
C11_CreateOrder ==
    \A p \in DOMAIN runs :
        \A a \in Range(runs[p].templates), b \in Range(runs[p].templates) :
            (/\ StringLess(toLowerCase(a.name), toLowerCase(b.name))
             /\ Applies(impl, HostFields(p), a)
             /\ CreateIssuedAt(runs[p], b.name) # {})
            => \/ \E i \in CreateIssuedAt(runs[p], a.name) :
                      \A j \in CreateIssuedAt(runs[p], b.name) : i < j
               \/ DetailFailed(runs[p], a.name) /\ CreateIssuedAt(runs[p], a.name) = {}
\* a run has issued two create requests in an order that is not the order
\* in which the host returned the templates
C11_Witness ==
    \E p \in DOMAIN runs :
        \E i \in CreateIssuedAt(runs[p], <<"a">>), j \in CreateIssuedAt(runs[p], <<"B">>) :
            /\ i < j
            /\ TemplatesOfTypes(runs[p].childTypes)[1].name = <<"B">>


(***************************************************************************)
(* One create or link request at a time (C12)                              *)
(***************************************************************************)
\* the requests that create a child or link it to its parent
CreateOrLinkKinds == {"create", "createClient", "link", "linkClient", "addRelation"}
CreateOrLinkInFlight(p) == {req \in inFlight : req.run = p /\ req.kind \in CreateOrLinkKinds}

\* C12: within one run at most one create-child or link-to-parent request
\* is with the host at any time.
C12_OneRequestInFlight ==
    \A p \in DOMAIN runs : Cardinality(CreateOrLinkInFlight(p)) <= 1


(***************************************************************************)
(* A batch of parents (C17)                                                *)
(***************************************************************************)
\* the command is over: create has returned, or the catch of run has taken
\* its exception, and no run of it awaits anything
CommandOver ==
    /\ invocation.pc \in {"returned", "caught"}
    /\ \A p \in DOMAIN runs : runs[p].pc \in {"done", "rejected", "notStarted"}

\* C17: in a batch, a parent whose data could not be fetched ends its own
\* run only: when the command is over, the run of every other parent id has
\* been started and carried through.
C17_BatchIsolation ==
    (CommandOver /\ \E p \in DOMAIN runs : runs[p].pc = "rejected")
    => \A q \in DOMAIN runs : runs[q].pc # "notStarted"

(***************************************************************************)
(* Saving the form and reloading the view (C18)                            *)
(***************************************************************************)
\* C18: in a run the form is saved or the view reloaded only after the
\* create and link steps of all matched templates: no create request is
\* issued after a save or a reload of the same run.
C18_RefreshIsLast ==
    \A p \in DOMAIN runs :
        \A i \in 1..Len(runs[p].log), j \in 1..Len(runs[p].log) :
            (i < j /\ runs[p].log[i].e \in {"save", "reload"})
            => runs[p].log[j].e # "create"


(***************************************************************************)
(* A failure for one template (C13)                                        *)
(***************************************************************************)
\* the event loop runs every handler whose request the host has settled, and
\* the host settles every request or withTimeout gives up on it
SpecRunFair == InitRun /\ [][NextRun]_vars /\ WF_vars(NextRun)

FailureEvents == {"detailFailed", "createFailed", "linkFailed"}
\* fetching the detail of, creating or linking the child of some template
\* has failed in the run
FailedForSome(r) ==
    \/ \E k \in 1..Len(r.log) : r.log[k].e \in FailureEvents
    \/ \E i \in 1..Len(r.details) : r.details[i] = "failed"

EmptyValuedKeys ==
    {key \in Range(taskTemplate.fields.k) :
        ~IsTagsKey(key) /\ Get(taskTemplate.fields, key) = JStr(<<>>)}

\* C21: for a template key that is not under System.Tags and whose value is
\* the empty string, the patch has an operation for that key carrying the
\* parent's value iff the parent has a non-null value for the key, and no
\* operation at all for that key otherwise.
C21_EmptyValueCopiesParent ==
    (Created /\ ~ret.thrown)
    => \A key \in EmptyValuedKeys :
           IF IsNullish(Get(currentWorkItem, key))
           THEN OpsOf(ret.val, key) = {}
           ELSE /\ OpsOf(ret.val, key) # {}
                /\ \A i \in OpsOf(ret.val, key) :
                       ret.val[i].value = Get(currentWorkItem, key)

\* C23: the patch returned by createWorkItemFromTemplate has no two
\* operations with the same path, for every parent, every field map with
\* string values and every team settings value.
C23_DistinctPaths ==
    (Created /\ ~ret.thrown)
    => \A i, j \in 1..Len(ret.val) : ret.val[i].path = ret.val[j].path => i = j

\* C23 witness: a template with System.Tags, System.Tags-Add, @me,
\* @currentiteration and an empty title gave a patch with one operation on
\* each of System.Tags, System.AssignedTo and System.IterationPath
C23_Witness ==
    /\ Created
    /\ ~ret.thrown
    /\ {SystemTags, SystemTagsAdd} \subseteq Range(taskTemplate.fields.k)
    /\ Get(taskTemplate.fields, SystemAssignedTo) = JStr(AtMe)
    /\ AsksCurrentIteration
    /\ \A f \in {SystemTags, SystemAssignedTo, SystemIterationPath} :
           Cardinality(OpsOf(ret.val, f)) = 1

\* C30: every operation of the patch returned by createWorkItemFromTemplate
\* has a defined, non-null value, for every parent and every template.
C30_ValuesDefined ==
    (Created /\ ~ret.thrown)
    => \A i \in 1..Len(ret.val) : ~IsNullish(ret.val[i].value)


(***************************************************************************)
(* A rule whose evaluation throws (C22)                                    *)
(***************************************************************************)
\* the applywhen array isValidTemplateWIT evaluates: the one of the object
\* that extractJSON of the build under check returns, <<>> when it finds none
EvaluatedRules ==
    LET extracted == IF impl = "js" THEN extractJSON_js(taskTemplate.description)
                     ELSE extractJSON_ts(taskTemplate.description)
    IN IF extracted.found /\ extracted.res.t = "object"
          /\ Get(extracted.res, ApplyWhenKey).t = "array"
       THEN Get(extracted.res, ApplyWhenKey).a
       ELSE <<>>

\* the outcome of matchField of the build under check
MatchFieldOutcome(f, item, rule) ==
    IF impl = "js"
    THEN LET r == matchField_js(f, item, NoNorm, rule) IN [thrown |-> r.thrown, val |-> r.val]
    ELSE matchField_ts(f, item, rule)

\* evaluating the rule throws: reading a field of a null rule, or a matchField
\* call that is reached, which it is when the calls before it returned true
RuleThrows(item, rule) ==
    LET order == IF impl = "js" THEN orderedFields ELSE orderedFields_ts
    IN \/ IsNullish(rule)
       \/ \E i \in 1..Len(order) :
              /\ MatchFieldOutcome(order[i], item, rule).thrown
              /\ \A j \in 1..(i - 1) :
                     LET m == MatchFieldOutcome(order[j], item, rule)
                     IN ~m.thrown /\ m.val

\* C22: when evaluating one applywhen rule throws, that rule counts as not
\* matching, the other rules are still evaluated, and isValidTemplateWIT
\* returns normally, with true iff some other rule matches.
C22_ThrowingRuleIsSkipped ==
    (/\ call.op = "isValidTemplateWIT"
     /\ \E i \in 1..Len(EvaluatedRules) : RuleThrows(currentWorkItem, EvaluatedRules[i]))
    => (/\ ~ret.thrown
        /\ ret.val = (\E j \in 1..Len(EvaluatedRules) :
                          /\ ~RuleThrows(currentWorkItem, EvaluatedRules[j])
                          /\ RuleHolds(currentWorkItem, EvaluatedRules[j])))

\* C22 witness: the first rule is null, a later rule names the state of the
\* parent, and the template was found applicable
C22_Witness ==
    /\ call.op = "isValidTemplateWIT"
    /\ Len(EvaluatedRules) = 2
    /\ EvaluatedRules[1] = JNull
    /\ HasOwn(EvaluatedRules[2], SystemState)
    /\ ~ret.thrown
    /\ ret.val


(***************************************************************************)
(* A rule that names no recognized field (C27)                             *)
(***************************************************************************)
\* a rule object without any of the 8 recognized field names
NamesNoField(rule) ==
    rule.t = "object" /\ \A f \in Range(orderedFields) : ~HasOwn(rule, f)

\* C27: a template whose applywhen array contains a rule object that names
\* none of the 8 recognized fields (an empty object, or only unknown keys) is
\* applicable to every parent work item.
C27_EmptyRuleMatchesAll ==
    call.op = "isValidTemplateWIT"
    => \A o \in FiltersIn(taskTemplate.description) :
           (\E i \in 1..Len(Get(o, ApplyWhenKey).a) : NamesNoField(Get(o, ApplyWhenKey).a[i]))
           => (~ret.thrown /\ ret.val)


(***************************************************************************)
(* matchField on absent and scalar rule values (C24)                       *)
(***************************************************************************)
\* a rule value that is neither absent, null nor an array
IsScalarRuleValue(v) == ~IsNullish(v) /\ v.t # "array"

\* C24: matchField returns true whenever the rule has no value (absent or
\* null) for the field; for a scalar rule value on a field other than
\* System.Title and System.Tags it returns true iff the item has a value for
\* the field that equals the rule value, letter case ignored, and so returns
\* false when the item's value is missing, whatever the rule value is.
C24_AbsentAndScalarRule ==
    call.op = "matchField"
    => LET ruleValue == Get(filterElement, call.field)
           itemValue == Get(currentWorkItem, call.field)
       IN /\ IsNullish(ruleValue) => (~ret.thrown /\ ret.val)
          /\ (IsScalarRuleValue(ruleValue) /\ call.field \notin {SystemTitle, SystemTags})
             => (/\ ~ret.thrown
                 /\ ret.val = (/\ ~IsNullish(itemValue)
                               /\ toLowerCase(ToStr(itemValue))
                                      = toLowerCase(ToStr(ruleValue))))

\* C24 witness: the rule "new" matched the state "New"
C24_Witness ==
    /\ call.op = "matchField"
    /\ call.field = SystemState
    /\ Get(filterElement, SystemState) = JStr(<<"n", "e", "w">>)
    /\ Get(currentWorkItem, SystemState) = JStr(StateNew)
    /\ ~ret.thrown
    /\ ret.val


(***************************************************************************)
(* The normalization cached on the parent item (C25)                       *)
(***************************************************************************)
SystemId == <<"S", "y", "s", "t", "e", "m", ".", "I", "d">>

\* app.js addTasks: currentWorkItem['System.Id'] = workItemId
WithId(item) == JObj(item.k \o <<SystemId>>, item.a \o <<JNum(<<"1">>)>>)

\* a normalization that outlives the item it was computed for
StaleNorm(n) == n

\* app.js addTasks: var currentWorkItem = value.fields, the object of the
\* response just received, which has no __norm yet
FetchedNorm(n) == NoNorm

\* the parents and rules of the runs: states, and tags
CacheScenarios ==
    {[s EXCEPT !.currentWorkItem = WithId(@)] :
        s \in StateScenarios
              \cup {s \in TagScenarios :
                      Get(s.filterElement, SystemTags)
                          \in {JStr(TagBlah), JArr(<<JStr(TagBlah), JStr(TagClickMe)>>)}}}
CacheItems == {s.currentWorkItem : s \in CacheScenarios}

\* addTasks: witClient.getWorkItem(workItemId).then(...), the start of a run
\* on the item the host returns
GetWorkItem ==
    /\ calls > 0
    /\ \E item \in CacheItems : currentWorkItem' = item
    /\ norm' = FetchedNorm(norm)
    /\ call' = [op |-> "getWorkItem", field |-> <<>>]
    /\ ret' = NoResult
    /\ calls' = 0
    /\ UNCHANGED runVars
    /\ UNCHANGED <<impl, filterElement, taskTemplate, teamSettings, currentUser>>

NextCache ==
    \/ NextMatch
    \/ GetWorkItem

InitCache == InitOf(CacheScenarios)
SpecCache == InitCache /\ [][NextCache]_vars

\* the normalized view kept on the item: the lower-cased fields and the tags
ViewOf(n) == [lower |-> n.lower, tagsLowerSet |-> n.tagsLowerSet]

SpecRunTimers ==
    /\ InitRun
    /\ [][NextRun]_vars
    /\ WF_vars(Create_js \/ Create_ts)
    /\ WF_vars(\E p \in DOMAIN runs : OnCreateTimeout_ts(p) \/ OnLinkTimeout_ts(p))

\* C26: every network operation of a run is bounded, a call that never
\* responds counting as a failure of that operation after the bounded wait:
\* every run that has started reaches a terminal state, its end or an early
\* return, whether or not the host answers.
C26_EveryRunEnds ==
    \A p \in HostIds :
        (p \in DOMAIN runs /\ runs[p].pc # "notStarted")
        ~> (p \in DOMAIN runs /\ runs[p].pc \in {"done", "rejected"})


(***************************************************************************)
(* Children per template (C28)                                             *)
(***************************************************************************)
\* the creates of the template that the host has applied in the run
ChildrenOf(r, name) == {k \in 1..Len(r.log) : r.log[k] = Event("hostCreated", name)}

\* C28: in one run at most one child work item is created per applicable
\* template, also when the host applied a create request whose response was
\* reported to the caller as a failure.
C28_OneChildPerTemplate ==
    \A p \in DOMAIN runs :
        \A t \in Range(runs[p].templates) : Cardinality(ChildrenOf(runs[p], t.name)) <= 1


(***************************************************************************)
(* The reload of the view in a batch (C29)                                 *)
(***************************************************************************)
\* two parents selected on the grid that each have an applicable template:
\* an Epic and a Task
CreatorIds == <<2, 4>>
InitBatch == InitRunOf(Contexts \cup {[surface |-> "grid", ids |-> CreatorIds]})
SpecBatch == InitBatch /\ [][NextRun]_vars

ReloadCount(r) == Cardinality({k \in 1..Len(r.log) : r.log[k].e = "reload"})

\* the templates the host holds for the children of the parent p
ExpectedTemplates(p) ==
    LET c == findWorkTypeCategory(HostCategories, HostWorkItemType[p])
    IN IF c = 0 THEN <<>>
       ELSE TemplatesOfTypes(ChildTypeNames(
                ChildCategories(HostCategories[c].referenceName, "Off")))

\* the run r of the parent p has a create or link request with the host
\* (flight), or has not ended and has not yet issued the create request of a
\* template that applies to p
RunUnfinished(p, r, flight) ==
    \/ \E req \in flight : req.run = p /\ req.kind \in CreateOrLinkKinds
    \/ /\ r.pc \notin {"done", "rejected"}
       /\ \E i \in 1..Len(ExpectedTemplates(p)) :
              /\ Applies(impl, HostFields(p), ExpectedTemplates(p)[i])
              /\ CreateIssuedAt(r, ExpectedTemplates(p)[i].name) = {}
              /\ ~DetailFailed(r, ExpectedTemplates(p)[i].name)

\* C29: in a grid invocation with several parent ids, the reload of the view
\* is never issued while a run of the invocation still has a create or link
\* request pending or not yet started.
C29_ReloadAfterAllRuns ==
    [][\A p \in DOMAIN runs :
           (Len(workItemIds) > 1 /\ ReloadCount(runs'[p]) > ReloadCount(runs[p]))
           => \A q \in DOMAIN runs : ~RunUnfinished(q, runs'[q], inFlight')]_vars

====
